---- MODULE Spec2Model ----
(***************************************************************************)
(* Model of mastery_calc.py: the wave-by-wave run orchestrator             *)
(* (simulate_run), the perk confidence estimator, the wave simulator and   *)
(* reward calculator it drives, the batch evaluation of scenarios          *)
(* (evaluate_sims) and the normalization stages (normalize_sims).          *)
(*                                                                         *)
(* Numbers.  The program computes with floats.  Here every real quantity   *)
(* is a fixed-point integer with Scale units per 1.0, products and         *)
(* quotients rounded toward zero (Mul, Div).  Waves, tiers, table indices  *)
(* and mastery levels are plain integers.  None is modelled by NoLevel     *)
(* for mastery levels and by NoneValue for optional table cells.           *)
(*                                                                         *)
(* Objects.  Python dataclasses, dicts and lists are mutable objects that  *)
(* may be shared by reference.  heap maps object identities to their       *)
(* current values; copy.deepcopy allocates new identities.  The static     *)
(* tables are module-level values, written only while the module loads    *)
(* (lines 22-283) and by no function; they are definitions here.           *)
(***************************************************************************)
EXTENDS Integers, Sequences, FiniteSets, TLC

\* ---------------------------------------------------------------------
\* Fixed-point arithmetic
\* ---------------------------------------------------------------------

Scale == 1000

Abs(x) == IF x < 0 THEN -x ELSE x

Sign(x) == IF x < 0 THEN -1 ELSE 1

\* a * b for two fixed-point numbers, rounded toward zero; the partial
\* products keep every intermediate below 2^31.
MulNat[a \in Nat, b \in Nat] ==
    a * (b \div Scale) + (a \div Scale) * (b % Scale)
      + ((a % Scale) * (b % Scale)) \div Scale

MulInt[a \in Int, b \in Int] == Sign(a) * Sign(b) * MulNat[Abs(a), Abs(b)]

Mul(a, b) == MulInt[a, b]

\* a / b for two fixed-point numbers (b # 0), rounded toward zero: long
\* division, one decimal digit of the Scale at a time, which keeps every
\* intermediate below 2^31.
DivNat[a \in Nat, b \in Nat] ==
    LET tenths == ((a % b) * 10) \div b
        tenths_left == ((a % b) * 10) % b
        hundredths == (tenths_left * 10) \div b
        hundredths_left == (tenths_left * 10) % b
        thousandths == (hundredths_left * 10) \div b
    IN  (a \div b) * Scale + tenths * 100 + hundredths * 10 + thousandths

DivInt[a \in Int, b \in Int] == Sign(a) * Sign(b) * DivNat[Abs(a), Abs(b)]

Div(a, b) == DivInt[a, b]

\* TLC evaluates operator arguments on demand; Strict(v, e) is e with v
\* evaluated first, which keeps long folds from nesting their thunks.
Strict(v, e) == IF v = v THEN e ELSE e

\* Body applied to value, with value computed once.
Let(value, Body(_)) == CHOOSE result \in {Body(v) : v \in {value}} : TRUE

\* An integer as a fixed-point number.
Fix(n) == n * Scale

\* s[first] + ... + s[last], summed left to right.
RECURSIVE SumRange(_, _, _)
SumRange(s, first, last) ==
    IF first > last THEN 0
    ELSE IF first = last THEN s[first]
    ELSE SumRange(s, first, (first + last) \div 2)
           + SumRange(s, ((first + last) \div 2) + 1, last)

SumSeq(s) == SumRange(s, 1, Len(s))

Range(s) == {s[i] : i \in DOMAIN s}

NoLevel == -1

NoneValue == -1

\* ---------------------------------------------------------------------
\* Static tables (src lines 22-283), fixed-point where the source is float
\* ---------------------------------------------------------------------

GAME_SPEED == 4000

WAVE_DURATION == 26000

WAVE_COOLDOWN == 5000

TIERS == 1..18

TIER_COIN_BONUS ==
    <<1000, 1800, 2600, 3400, 4200, 5000, 5800, 6600, 7500, 8700, 10300, 12200, 14700, 17600, 21300, 25200, 29100, 33000>>

TIER_CELL_DROP_MIN == <<1, 1, 1, 1, 1, 1, 1, 1, 1, 1, 1, 1, 1, 7, 11, 12, 12, 12>>

TIER_CELL_DROP_MAX == <<1, 2, 3, 4, 5, 6, 7, 8, 9, 10, 11, 12, 13, 14, 15, 16, 17, 18>>

TIER_REROLL_DROP == <<1, 2, 3, 4, 6, 8, 12, 18, 25, 32, 40, 45, 50, 55, 60, 65, 70, 75>>

TIER_BOSS_PERIOD == <<10, 10, 10, 10, 10, 10, 10, 10, 10, 10, 10, 10, 10, 9, 8, 7, 6, 5>>

SPAWN_RATE_SEQUENCE ==
    <<10, 11, 13, 15, 17, 19, 20, 22, 24, 26, 28, 30, 32, 34, 36, 37, 39, 40, 42, 44, 46, 48, 49, 50, 52, 54, 56>>

SPAWN_RATE_WAVES ==
    <<1, 3, 6, 20, 40, 60, 80, 100, 150, 200, 250, 300, 400, 600, 800, 1000, 1500, 2000, 2500, 3000, 3500, 4000, 4500, 5000, 5500, 6000, 6500>>

\* 8 * 1.9 / 100
SPAWN_RATE_FACTOR == 152

SPAWN_CHANCE_BASE ==
    [fast |-> <<50, 50, 60, 70, 80, 90, 100, 100, 110, 110, 120, 120, 130, 130, 130, 140, 150, 170, 180, 190, 200, 210, 210, 220, 230, 240, 240>>,
     tank |-> <<0, 20, 40, 60, 70, 80, 80, 90, 100, 110, 120, 130, 130, 140, 140, 150, 160, 170, 180, 190, 190, 200, 200, 200, 210, 210, 220>>,
     ranged |-> <<0, 0, 10, 20, 30, 40, 50, 60, 60, 70, 70, 80, 90, 100, 110, 110, 130, 140, 150, 160, 170, 180, 190, 190, 190, 200, 210>>,
     protector |-> <<0, 0, 0, 0, 0, 0, 10, 10, 10, 20, 20, 20, 30, 30, 40, 40, 40, 40, 40, 40, 40, 40, 40, 40, 40, 40, 40>>]

\* SPAWN_CHANCE_TABLE["basic"] is what the other four rows leave of 1.0.
SPAWN_CHANCE_TABLE ==
    [name \in {"fast", "tank", "ranged", "protector", "basic"} |->
        IF name = "basic"
        THEN [i \in DOMAIN SPAWN_RATE_SEQUENCE |->
                 Scale - (SPAWN_CHANCE_BASE.fast[i] + SPAWN_CHANCE_BASE.tank[i]
                          + SPAWN_CHANCE_BASE.ranged[i]
                          + SPAWN_CHANCE_BASE.protector[i])]
        ELSE SPAWN_CHANCE_BASE[name]]

EnemyNames ==
    {"basic", "fast", "tank", "ranged", "protector", "scatter", "vampire", "ray", "boss", "saboteur", "commander", "overcharge"}

COIN_DROP_TABLE ==
    [name \in EnemyNames |->
        CASE name = "basic" -> 330
          [] name \in {"fast", "ranged"} -> 2000
          [] name \in {"tank", "scatter", "vampire", "ray"} -> 4000
          [] name = "protector" -> 3000
          [] OTHER -> 0]

ELITE_SPAWN_CHANCE_TABLE ==
    <<0, 10, 40, 90, 150, 240, 360, 480, 630, 810, 1000>>

ELITE_SINGLE_SPAWN_WAVES_TABLE ==
    << <<0, 500, 1000, 1500, 2000, 3000, 4000, 5000, 6000, 7000, 8000>>,
       <<0, 450, 900, 1350, 1800, 2700, 3600, 4500, 5400, 6300, 7200>>,
       <<0, 405, 810, 1215, 1620, 2430, 3240, 4050, 4860, 5670, 6480>>,
       <<0, 365, 729, 1094, 1458, 2187, 2916, 3645, 4374, 5103, 5832>>,
       <<0, 328, 656, 984, 1312, 1968, 2624, 3281, 3937, 4593, 5249>>,
       <<0, 295, 590, 886, 1181, 1771, 2362, 2952, 3543, 4133, 4724>>,
       <<0, 266, 531, 797, 1063, 1594, 2126, 2657, 3189, 3720, 4252>>,
       <<0, 239, 478, 717, 957, 1435, 1913, 2391, 2870, 3348, 3826>>,
       <<0, 215, 430, 646, 861, 1291, 1722, 2152, 2583, 3013, 3444>>,
       <<0, 194, 387, 581, 775, 1162, 1550, 1937, 2325, 2712, 3099>>,
       <<0, 174, 349, 523, 697, 1046, 1395, 1743, 2092, 2441, 2789>>,
       <<0, 157, 314, 471, 628, 941, 1255, 1569, 1883, 2197, 2510>>,
       <<0, 141, 282, 424, 565, 847, 1130, 1412, 1695, 1977, 2259>>,
       <<0, 127, 254, 381, 508, 763, 1017, 1271, 1525, 1779, 2033>>,
       <<0, 114, 229, 343, 458, 686, 915, 1144, 1373, 1601, 1830>>,
       <<0, 41, 102, 205, 308, 411, 617, 823, 1029, 1235, 1441>>,
       <<0, 37, 92, 185, 277, 370, 555, 741, 926, 1111, 1297>>,
       <<0, 33, 83, 166, 250, 333, 500, 667, 833, 1000, 1167>> >>

ELITE_DOUBLE_SPAWN_WAVES_TABLE ==
    << <<0, 8000, 9000, 10000, 11000, 12000, 13000, 14000, 15000, 16000, 17000>>,
       <<0, 7200, 8100, 9000, 9900, 10800, 11700, 12600, 13500, 14400, 15300>>,
       <<0, 6480, 7290, 8100, 8910, 9720, 10530, 11340, 12150, 12960, 13770>>,
       <<0, 5832, 6561, 7290, 8019, 8748, 9477, 10206, 10935, 11664, 12393>>,
       <<0, 5249, 5905, 6561, 7217, 7873, 8529, 9185, 9841, 10497, 11153>>,
       <<0, 4724, 5314, 5905, 6495, 7086, 7676, 8267, 8857, 9448, 10038>>,
       <<0, 4252, 4783, 5314, 5846, 6377, 6909, 7440, 7972, 8503, 9034>>,
       <<0, 3826, 4305, 4783, 5261, 5740, 6218, 6696, 7174, 7653, 8131>>,
       <<0, 3444, 3874, 4305, 4735, 5166, 5596, 6027, 6457, 6887, 7318>>,
       <<0, 3099, 3487, 3874, 4262, 4649, 5036, 5424, 5811, 6199, 6586>>,
       <<0, 2789, 3138, 3487, 3835, 4184, 4533, 4881, 5230, 5579, 5928>>,
       <<0, 2510, 2824, 3138, 3452, 3766, 4080, 4394, 4708, 5022, 5336>>,
       <<0, 2259, 2542, 2824, 3107, 3389, 3672, 3954, 4236, 4519, 4801>>,
       <<0, 2033, 2288, 2542, 2796, 3050, 3304, 3559, 3813, 4067, 4321>>,
       <<0, 1830, 2059, 2288, 2516, 2745, 2974, 3203, 3432, 3660, 3889>>,
       <<0, 1441, 1647, 1853, 2058, 2264, 2470, 2676, 2882, 3088, 3294>>,
       <<0, 1297, 1482, 1667, 1853, 2038, 2223, 2408, 2594, 2779, 2964>>,
       <<0, 1167, 1334, 1500, 1667, 1834, 2001, 2168, 2334, 2501, 2668>> >>

FLEET_MIN_WAVE_SPAWN_TABLE ==
    <<-1, -1, -1, -1, -1, -1, -1, -1, -1, -1, -1, -1, -1, 2495, 1495, 995, 495, 95, 45, 5, 5>>

FLEET_SPAWN_PERIOD_WAVE_TABLE ==
    <<-1, -1, -1, -1, -1, -1, -1, -1, -1, -1, -1, -1, -1, 1000, 750, 500, 250, 100, 50, 10, 10>>

FLEET_SPAWN_COUNT_TABLE ==
    <<0, 0, 0, 0, 0, 0, 0, 0, 0, 0, 0, 0, 0, 1, 1, 1, 1, 1, 1, 1, 2>>

FLEET_REROLL_SHARD_DROP_TABLE ==
    <<0, 0, 0, 0, 0, 0, 0, 0, 0, 0, 0, 0, 0, 1080, 1200, 1350, 1500, 1650, 1800, 1950, 2100>>

FLEET_MODULE_SHARD_DROP_TABLE ==
    << <<1, 5>>, <<250, 6>>, <<500, 7>>, <<750, 8>>,
       <<1000, 9>>, <<1250, 10>>, <<1500, 11>>, <<1750, 12>>,
       <<2000, 13>>, <<2250, 14>>, <<2500, 15>>, <<2750, 16>>,
       <<3000, 17>>, <<3250, 18>>, <<3500, 19>>, <<3750, 20>>,
       <<4000, 21>>, <<4250, 22>>, <<4500, 23>>, <<4750, 24>>,
       <<5000, 25>> >>

FLEET_REROLL_SHARD_DROP_CHANCE == 800

FLEET_MODULE_SHARD_DROP_CHANCE == 200

BOSS_REROLL_SHARD_DROP_CHANCE == 150

BOSS_COMMON_MODULE_DROP_CHANCE == 30

COMMON_MODULE_VALUE == 10

RARE_MODULE_DROP_CHANCE == 15

RARE_MODULE_VALUE == 30

\* percent
RECOVERY_PACKAGE_CHANCE == 82

STANDARD_PERK_CHANCE == 650

ULTIMATE_PERK_CHANCE == 200

TRADEOFF_PERK_CHANCE == 150

STANDARD_PERKS ==
    << <<"std-health", 5>>,
       <<"std-damage", 5>>,
       <<"std-coin-bonus", 5>>,
       <<"std-defabs", 5>>,
       <<"std-cash-bonus", 5>>,
       <<"std-regen", 5>>,
       <<"std-interest", 5>>,
       <<"std-lm-damage", 5>>,
       <<"std-freeup-chance", 5>>,
       <<"std-def%", 5>>,
       <<"std-bounce-shot", 3>>,
       <<"std-pwr", 3>>,
       <<"std-orbs", 2>>,
       <<"std-random-uw", 1>>,
       <<"std-game-speed", 1>> >>

ULTIMATE_PERKS ==
    << <<"uw-sm", 1>>,
       <<"uw-ps", 1>>,
       <<"uw-dw", 1>>,
       <<"uw-ilm", 1>>,
       <<"uw-gt", 1>>,
       <<"uw-cl", 1>>,
       <<"uw-cf", 1>>,
       <<"uw-bh", 1>>,
       <<"uw-sl", 1>> >>

TRADEOFF_PERKS ==
    << <<"to-tower-damage", 1>>,
       <<"to-coin", 1>>,
       <<"to-enemy-health", 1>>,
       <<"to-enemy-damage", 1>>,
       <<"to-enemy-range", 1>>,
       <<"to-enemy-speed", 1>>,
       <<"to-cash", 1>>,
       <<"to-regen", 1>>,
       <<"to-boss-health", 1>>,
       <<"to-lifesteal", 1>> >>

\* {**STANDARD_PERKS, **ULTIMATE_PERKS, **TRADEOFF_PERKS}, in dict order.
ALL_PERKS == STANDARD_PERKS \o ULTIMATE_PERKS \o TRADEOFF_PERKS

\* The keys of a perk table, in dict order, and as a set.
PerkKeys(category) == [i \in DOMAIN category |-> category[i][1]]

PerkNames == Range(PerkKeys(ALL_PERKS))

\* ALL_PERKS[perk]: the quantity of a perk.
PerkQuantity(perk) ==
    LET i == CHOOSE j \in DOMAIN ALL_PERKS : ALL_PERKS[j][1] = perk
    IN  ALL_PERKS[i][2]

PERK_BONUSES ==
    [p \in {"std-coin-bonus", "std-pwr", "std-game-speed", "std-freeup-chance", "uw-gt", "to-coin"} |->
        CASE p = "std-coin-bonus" -> 1150
          [] p = "std-pwr" -> -200
          [] p = "std-game-speed" -> 1000
          [] p = "std-freeup-chance" -> 50
          [] p = "uw-gt" -> 1500
          [] p = "to-coin" -> 1800]

PERK_PRIORITY_ORDER ==
    <<"std-pwr", "std-game-speed", "to-coin", "uw-gt", "std-coin-bonus", "std-freeup-chance">>

FIRST_PERK_CHOICE == "std-pwr"

PERK_BANS ==
    <<"to-tower-damage", "to-enemy-health", "to-enemy-range", "to-enemy-speed", "to-cash", "to-boss-health", "std-defabs", "std-interest">>

WAVE_SKIP_CHANCE == 190

WAVE_SKIP_BONUS == 1100

CASH_MASTERY_TABLE ==
    <<4, 8, 12, 16, 20, 24, 28, 32, 36, 40>>

COIN_MASTERY_TABLE ==
    <<1030, 1060, 1090, 1120, 1150, 1180, 1210, 1240, 1270, 1300>>

CRITICAL_COIN_MASTERY_TABLE ==
    <<100, 200, 300, 400, 500, 600, 700, 800, 900, 1000>>

ENEMY_BALANCE_MASTERY_TABLE ==
    <<60, 120, 180, 240, 300, 360, 420, 480, 540, 600>>

EXTRA_ORB_MASTERY_TABLE ==
    <<1040, 1080, 1120, 1160, 1200, 1240, 1280, 1320, 1360, 1400>>

RECOVERY_PACKAGE_CHANCE_MASTERY_TABLE ==
    <<4, 8, 12, 16, 20, 24, 28, 32, 36, 40>>

INTRO_SPRINT_MASTERY_TABLE ==
    <<180, 360, 540, 720, 900, 1080, 1260, 1440, 1620, 1800>>

WAVE_ACCELERATOR_MASTERY_TABLE ==
    << <<1, 3, 5, 18, 36, 55, 73, 91, 136, 182, 227, 273, 364, 545, 727, 909, 1364, 1818, 2273, 2727, 3182, 3636, 4091, 4545, 5000, 5455, 5909>>,
       <<1, 3, 5, 17, 33, 50, 67, 83, 125, 167, 208, 250, 333, 500, 667, 833, 1250, 1667, 2083, 2500, 2917, 3333, 3750, 4167, 4583, 5000, 5417>>,
       <<1, 2, 5, 15, 31, 46, 62, 77, 115, 154, 192, 231, 308, 462, 615, 769, 1154, 1538, 1923, 2308, 2692, 3077, 3462, 3846, 4231, 4615, 5000>>,
       <<1, 2, 4, 14, 29, 43, 57, 71, 107, 143, 179, 214, 286, 429, 571, 714, 1071, 1429, 1786, 2143, 2500, 2857, 3214, 3571, 3929, 4286, 4643>>,
       <<1, 2, 4, 13, 27, 40, 53, 67, 100, 133, 167, 200, 267, 400, 533, 667, 1000, 1333, 1667, 2000, 2333, 2667, 3000, 3333, 3667, 4000, 4333>>,
       <<1, 2, 4, 13, 25, 38, 50, 63, 94, 125, 156, 188, 250, 375, 500, 625, 938, 1250, 1563, 1875, 2188, 2500, 2813, 3125, 3438, 3750, 4063>>,
       <<1, 2, 4, 12, 24, 35, 47, 59, 88, 118, 147, 176, 235, 353, 471, 588, 882, 1176, 1471, 1765, 2059, 2353, 2647, 2941, 3235, 3529, 3824>>,
       <<1, 2, 3, 11, 22, 33, 44, 56, 83, 111, 139, 167, 222, 333, 444, 556, 833, 1111, 1389, 1667, 1944, 2222, 2500, 2778, 3056, 3333, 3611>>,
       <<1, 2, 3, 11, 21, 32, 42, 53, 79, 105, 132, 158, 211, 316, 421, 526, 789, 1053, 1316, 1579, 1842, 2105, 2368, 2632, 2895, 3158, 3421>>,
       <<1, 2, 3, 10, 20, 30, 40, 50, 75, 100, 125, 150, 200, 300, 400, 500, 750, 1000, 1250, 1500, 1750, 2000, 2250, 2500, 2750, 3000, 3250>> >>

WAVE_SKIP_MASTERY_TABLE ==
    <<100, 150, 200, 250, 300, 350, 400, 450, 500, 550>>

MASTERY_STONE_COSTS ==
    [m \in {"cash", "coin", "critical-coin", "enemy-balance", "extra-orb", "intro-sprint", "recovery-package", "wave-accelerator", "wave-skip"} |->
        CASE m = "cash" -> 500
          [] m \in {"coin", "intro-sprint"} -> 1250
          [] m = "extra-orb" -> 750
          [] OTHER -> 1000]

REWARD_NAMES == <<"coins", "cells", "rerolls", "modules">>

\* ---------------------------------------------------------------------
\* Simulation config accessors
\* ---------------------------------------------------------------------

standard_perk_bonus(sim) == Scale + (Fix(sim.standard_perk_bonus_lab) \div 100)

tradeoff_perk_bonus(sim) == Scale + (Fix(sim.improved_tradeoff_perk_lab) \div 100)

perk_option_quantity(sim) == 2 + sim.perk_option_quantity_lab

perk_waves_required(sim, base) == base - sim.perk_waves_required_lab

max_intro_wave(sim) ==
    IF sim.intro_sprint = NoLevel
    THEN 100
    ELSE INTRO_SPRINT_MASTERY_TABLE[sim.intro_sprint + 1]

\* ---------------------------------------------------------------------
\* Perks: expected count per perk
\* ---------------------------------------------------------------------

perks_default_factory == [perk \in PerkNames |-> 0]

pwr_bonus(perks, sim) ==
    Scale + Mul(Mul(perks["std-pwr"], PERK_BONUSES["std-pwr"]),
                standard_perk_bonus(sim))

game_speed_factor(perks, sim) ==
    Div(GAME_SPEED
          + Mul(Mul(perks["std-game-speed"], PERK_BONUSES["std-game-speed"]),
                standard_perk_bonus(sim)),
        GAME_SPEED)

coin_bonus(perks, sim) ==
    LET b1 == Mul(Mul(perks["std-coin-bonus"], PERK_BONUSES["std-coin-bonus"]),
                  standard_perk_bonus(sim))
        b2 == Mul(b1, Mul(perks["uw-gt"], PERK_BONUSES["uw-gt"]))
        b3 == Mul(b2, Mul(Mul(perks["to-coin"], PERK_BONUSES["to-coin"]),
                          tradeoff_perk_bonus(sim)))
    IN  Scale + b3

free_upgrade_chance_bonus(perks, sim) ==
    Mul(Mul(perks["std-freeup-chance"], PERK_BONUSES["std-freeup-chance"]),
        standard_perk_bonus(sim))

\* perk_count_at_wave: the fractional number of perk events due by wave,
\* walking the three bands (quantity, waves per perk).
RECURSIVE PerkBands(_, _, _, _)
PerkBands(bands, wave, last_wave, perk_count) ==
    IF bands = <<>>
    THEN Fix(perk_count)
    ELSE LET perk_quantity == Head(bands)[1]
             waves_per_perk == Head(bands)[2]
             max_wave == last_wave + perk_quantity * waves_per_perk
         IN  IF Fix(wave) < max_wave
             THEN Fix(perk_count) + Div(Fix(wave) - last_wave, waves_per_perk)
             ELSE PerkBands(Tail(bands), wave, max_wave,
                            perk_count + perk_quantity)

\* perk_count_at_wave with a last band of 20 perk events instead of 10.
perk_count_at_wave_long_band(sim, perks, wave) ==
    LET bonus == pwr_bonus(perks, sim)
        pwr_waves == << <<20, perk_waves_required(sim, 200) * bonus>>,
                        <<20, perk_waves_required(sim, 250) * bonus>>,
                        <<20, perk_waves_required(sim, 300) * bonus>> >>
    IN  PerkBands(pwr_waves, wave, 0, 0)

perk_count_at_wave(sim, perks, wave) ==
    LET bonus == pwr_bonus(perks, sim)
        pwr_waves == << <<20, perk_waves_required(sim, 200) * bonus>>,
                        <<20, perk_waves_required(sim, 250) * bonus>>,
                        <<10, perk_waves_required(sim, 300) * bonus>> >>
    IN  PerkBands(pwr_waves, wave, 0, 0)

\* ---------------------------------------------------------------------
\* PerksConfidence and PerkOptions
\* ---------------------------------------------------------------------

perks_confidence_default_factory ==
    [perk \in PerkNames |-> [i \in 1..PerkQuantity(perk) |-> 0]]

\* PerksConfidence()
NewPerksConfidence == [count |-> 0, perks |-> perks_confidence_default_factory]

\* PerksConfidence.__add__: the count is the left operand's.
PerksConfidence_add(self, other) ==
    [count |-> self.count,
     perks |-> [perk \in PerkNames |->
                  [i \in DOMAIN self.perks[perk] |->
                      self.perks[perk][i] + other.perks[perk][i]]]]

PerksConfidence_mul(self, factor) ==
    [count |-> self.count,
     perks |-> [perk \in PerkNames |->
                  [i \in DOMAIN self.perks[perk] |->
                      Mul(self.perks[perk][i], factor)]]]

\* PerksConfidence.reduce
reduce(confidence) ==
    [perk \in PerkNames |-> SumSeq(confidence.perks[perk])]

perk_options_default_factory == [perk \in PerkNames |-> 0]

\* sum(options.values())
Magnitude(options) ==
    SumSeq([i \in DOMAIN ALL_PERKS |-> options[ALL_PERKS[i][1]]])

PerkOptions_add(self, other) == [perk \in PerkNames |-> self[perk] + other[perk]]

PerkOptions_mul(self, factor) == [perk \in PerkNames |-> Mul(self[perk], factor)]

\* PerkOptions.inorm: divide by the magnitude unless it is zero.
inorm(options) ==
    LET magnitude == Magnitude(options)
    IN  IF magnitude # 0
        THEN [perk \in PerkNames |-> Div(options[perk], magnitude)]
        ELSE options

\* ---------------------------------------------------------------------
\* Perk Confidence Estimator
\* ---------------------------------------------------------------------

perk_category_option_chances(sim, options, confidence, category, factor) ==
    LET offered == Range(PerkKeys(category)) \ Range(sim.perk_bans)
        next_options ==
            [perk \in PerkNames |->
                IF perk \in offered
                THEN Mul(Scale - options[perk],
                         Scale - confidence.perks[perk][Len(confidence.perks[perk])])
                ELSE 0]
    IN  PerkOptions_mul(inorm(next_options), factor)

perk_option_chances(sim, options, confidence) ==
    LET sperks == perk_category_option_chances(sim, options, confidence,
                                               STANDARD_PERKS, STANDARD_PERK_CHANCE)
        uperks == perk_category_option_chances(sim, options, confidence,
                                               ULTIMATE_PERKS, ULTIMATE_PERK_CHANCE)
        tperks == perk_category_option_chances(sim, options, confidence,
                                               TRADEOFF_PERKS, TRADEOFF_PERK_CHANCE)
    IN  inorm(PerkOptions_add(PerkOptions_add(sperks, uperks), tperks))

\* The loop over the option slots: each slot adds the appearance chances
\* given the slots before it.
RECURSIVE OptionSlots(_, _, _, _)
OptionSlots(sim, confidence, options, options_count) ==
    IF options_count <= 0
    THEN options
    ELSE LET next_options ==
                 PerkOptions_add(options,
                                 perk_option_chances(sim, options, confidence))
         IN  Strict(next_options,
                    OptionSlots(sim, confidence, next_options, options_count - 1))

perk_option_set_chances(sim, confidence) ==
    IF confidence.count = 0
    THEN OptionSlots(sim, confidence,
                     [perk_options_default_factory
                         EXCEPT ![sim.first_perk_choice] = Scale],
                     perk_option_quantity(sim) - 1)
    ELSE OptionSlots(sim, confidence, perk_options_default_factory,
                     perk_option_quantity(sim))

\* A resolution that leaves high_perk in the set the inner loop walks.
RemoveHigh_kept(lower_priority, high_perk) == lower_priority

\* lower_priority.remove(high_perk), done before the inner loop runs.
RemoveHigh(lower_priority, high_perk) == lower_priority \ {high_perk}

\* The inner loop of the priority resolution: every perk still in
\* lower_priority is discounted by the chance of high_perk, read from the
\* options as they are at that point of the loop.  Python iterates the set
\* lower_priority in an order the language leaves open; iteration is a
\* sequence of all perks giving that order; the loop walks its positions
\* first..last in order (the first half, then the second on its result).
RECURSIVE DiscountLower(_, _, _, _, _, _)
DiscountLower(options, high_perk, lower_priority, iteration, first, last) ==
    IF first > last
    THEN options
    ELSE IF first = last
    THEN LET lower_perk == iteration[first]
         IN  IF lower_perk \in lower_priority
             THEN [options EXCEPT ![lower_perk] =
                      Mul(options[lower_perk], Scale - options[high_perk])]
             ELSE options
    ELSE LET middle == (first + last) \div 2
             half == DiscountLower(options, high_perk, lower_priority,
                                   iteration, first, middle)
         IN  Strict(half,
                    DiscountLower(half, high_perk, lower_priority, iteration,
                                  middle + 1, last))

\* The outer loop: the perks of the priority order, highest first.
RECURSIVE PriorityResolution(_, _, _, _)
PriorityResolution(options, priority_order, lower_priority, iteration) ==
    IF priority_order = <<>>
    THEN options
    ELSE LET high_perk == Head(priority_order)
             remaining == RemoveHigh(lower_priority, high_perk)
             discounted == DiscountLower(options, high_perk, remaining,
                                         iteration, 1, Len(iteration))
         IN  Strict(discounted,
                    PriorityResolution(discounted, Tail(priority_order),
                                       remaining, iteration))

\* The selection chances: option-set chances after priority resolution
\* and renormalisation.
SelectionChances(sim, confidence, iteration) ==
    inorm(PriorityResolution(perk_option_set_chances(sim, confidence),
                             sim.perk_priority_order, PerkNames, iteration))

\* A transition that assigns the gain to a slot instead of adding it.
active_perks_confidence_assigning(sim, confidence, iteration) ==
    LET options == SelectionChances(sim, confidence, iteration)
        count == confidence.count + 1
    IN  [count |-> count,
         perks |-> [perk \in PerkNames |->
                      [i \in DOMAIN confidence.perks[perk] |->
                          IF i <= count
                          THEN Mul(Scale - confidence.perks[perk][i],
                                   options[perk])
                          ELSE confidence.perks[perk][i]]]]

\* A transition that raises the slots from the event count upwards.
active_perks_confidence_upper_slots(sim, confidence, iteration) ==
    LET options == SelectionChances(sim, confidence, iteration)
        count == confidence.count + 1
    IN  [count |-> count,
         perks |-> [perk \in PerkNames |->
                      [i \in DOMAIN confidence.perks[perk] |->
                          IF i >= count
                          THEN confidence.perks[perk][i]
                                 + Mul(Scale - confidence.perks[perk][i],
                                       options[perk])
                          ELSE confidence.perks[perk][i]]]]

\* A transition that adds the selection chance to a slot whatever the
\* slot already holds.
active_perks_confidence_additive(sim, confidence, iteration) ==
    LET options == SelectionChances(sim, confidence, iteration)
        count == confidence.count + 1
    IN  [count |-> count,
         perks |-> [perk \in PerkNames |->
                      [i \in DOMAIN confidence.perks[perk] |->
                          IF i <= count
                          THEN confidence.perks[perk][i] + options[perk]
                          ELSE confidence.perks[perk][i]]]]

active_perks_confidence(sim, confidence, iteration) ==
    LET options == SelectionChances(sim, confidence, iteration)
        count == confidence.count + 1
    IN  [count |-> count,
         perks |-> [perk \in PerkNames |->
                      [i \in DOMAIN confidence.perks[perk] |->
                          IF i <= count
                          THEN confidence.perks[perk][i]
                                 + Mul(Scale - confidence.perks[perk][i],
                                       options[perk])
                          ELSE confidence.perks[perk][i]]]]

\* sum(ALL_PERKS.values())
TotalPerkQuantity == SumSeq([i \in DOMAIN ALL_PERKS |-> ALL_PERKS[i][2]])

\* The generator's loop: each step yields the confidence that follows the
\* last one yielded (the first half of the steps, then the rest).
RECURSIVE ConfidenceSteps(_, _, _, _)
ConfidenceSteps(sim, iteration, sequence, steps) ==
    IF steps = 0
    THEN sequence
    ELSE IF steps = 1
    THEN Append(sequence,
                active_perks_confidence(sim, sequence[Len(sequence)], iteration))
    ELSE LET half == ConfidenceSteps(sim, iteration, sequence, steps \div 2)
         IN  Strict(half,
                    ConfidenceSteps(sim, iteration, half, steps - steps \div 2))

\* list(active_perks_confidence_sequence(sim)): the initial state and one
\* state per perk event, sum(ALL_PERKS.values()) of them.
active_perks_confidence_sequence(sim, iteration) ==
    ConfidenceSteps(sim, iteration, <<NewPerksConfidence>>, TotalPerkQuantity)

\* ---------------------------------------------------------------------
\* PerkWaveEstimator
\* ---------------------------------------------------------------------

\* confidences is the precomputed list; Python index k is confidences[k + 1].
lower(confidences, perk_count) ==
    IF perk_count < Scale
    THEN NewPerksConfidence
    ELSE confidences[((perk_count - Scale) \div Scale) + 1]

higher(confidences, perk_count) ==
    IF perk_count >= Fix(Len(confidences))
    THEN confidences[Len(confidences)]
    ELSE confidences[(perk_count \div Scale) + 1]

average(confidences, perk_count) ==
    LET lower_confidence == lower(confidences, perk_count)
        upper_confidence == higher(confidences, perk_count)
        lambda == perk_count % Scale
    IN  PerksConfidence_add(
            lower_confidence,
            PerksConfidence_mul(
                PerksConfidence_add(upper_confidence,
                                    PerksConfidence_mul(lower_confidence, -Scale)),
                lambda))

\* The while loop of estimate: raise the perk count to the one the wave
\* calls for, re-derive the perks, and repeat while that raises it again.
RECURSIVE EstimateLoop(_, _, _, _, _)
EstimateLoop(confidences, sim, wave, perks, perk_count) ==
    LET next_perk_count == perk_count_at_wave(sim, perks, wave)
    IN  IF perk_count < next_perk_count
        THEN LET next_perks == reduce(average(confidences, next_perk_count))
             IN  Strict(next_perks,
                        EstimateLoop(confidences, sim, wave, next_perks,
                                     next_perk_count))
        ELSE perks

estimate(confidences, sim, wave, perks) ==
    EstimateLoop(confidences, sim, wave, perks,
                 SumSeq([i \in DOMAIN ALL_PERKS |-> perks[ALL_PERKS[i][1]]]))

\* ---------------------------------------------------------------------
\* Events and Rewards values
\* ---------------------------------------------------------------------

free_upgrades_default_factory ==
    [name \in {"attack", "defense", "utility"} |-> 0]

enemy_level_skip_default_factory == [name \in {"attack", "health"} |-> 0]

enemies_default_factory == [name \in EnemyNames |-> 0]

\* An Events object.  enemy_level_skips is a reference to a dict object
\* (simulate_wave stores the Simulation's own dict there); the other two
\* dicts are always built fresh for the object and are kept inline.
NewEvents(skips_ref) ==
    [wave |-> 0, wave_skip |-> 0,
     free_upgrades |-> free_upgrades_default_factory,
     recovery_packages |-> 0,
     enemy_level_skips |-> skips_ref,
     enemies |-> enemies_default_factory]

elite_enemy_count(events) ==
    events.enemies["scatter"] + events.enemies["vampire"] + events.enemies["ray"]

fleet_enemy_count(events) ==
    events.enemies["saboteur"] + events.enemies["commander"]
      + events.enemies["overcharge"]

\* Each scatter splits in half 4 times: sum(1 << i for i in range(1, 5)).
scatter_children_count(events) == events.enemies["scatter"] * (2 + 4 + 8 + 16)

NewRewards == [coins |-> 0, elite_cells |-> 0, reroll_shards |-> 0,
               module_shards |-> 0]

RewardFields == {"coins", "elite_cells", "reroll_shards", "module_shards"}

\* An accumulation that takes the wave's rewards away.
Rewards_iadd_minus(self, other) == [f \in RewardFields |-> self[f] - other[f]]

\* Rewards.__iadd__ as a value: self with other added field by field.
Rewards_iadd(self, other) == [f \in RewardFields |-> self[f] + other[f]]

Rewards_isub(self, other) == [f \in RewardFields |-> self[f] - other[f]]

Rewards_imul(self, factor) == [f \in RewardFields |-> Mul(self[f], factor)]

\* ---------------------------------------------------------------------
\* Wave Simulator
\* ---------------------------------------------------------------------

Max(S) == CHOOSE x \in S : \A y \in S : y <= x

Min(S) == CHOOSE x \in S : \A y \in S : x <= y

spawn_rate_index(sim, wave) ==
    LET spawn_rate_row ==
            IF sim.wave_accelerator = NoLevel
            THEN SPAWN_RATE_WAVES
            ELSE WAVE_ACCELERATOR_MASTERY_TABLE[sim.wave_accelerator + 1]
    IN  Max({i \in DOMAIN spawn_rate_row : spawn_rate_row[i] <= wave})

\* bisect.bisect(table, value, lo=1) - 1 on a sorted table, as an index
\* into the 1-based chance table.
EliteIndex(table, value) ==
    Cardinality({j \in 2..Len(table) : table[j] <= value}) + 1

elite_spawn_count(sim, wave) ==
    LET single_index == EliteIndex(ELITE_SINGLE_SPAWN_WAVES_TABLE[sim.tier], wave)
        double_index == EliteIndex(ELITE_DOUBLE_SPAWN_WAVES_TABLE[sim.tier], wave)
        single_chance == ELITE_SPAWN_CHANCE_TABLE[single_index]
        double_chance == ELITE_SPAWN_CHANCE_TABLE[double_index]
        combined_chance == Mul(single_chance, Scale + double_chance)
        double_spawn ==
            IF sim.enemy_balance = NoLevel
            THEN 0
            ELSE ENEMY_BALANCE_MASTERY_TABLE[sim.enemy_balance + 1]
    IN  Mul(combined_chance, Scale + double_spawn)

fleet_spawn_count(sim, wave) ==
    LET min_wave == FLEET_MIN_WAVE_SPAWN_TABLE[sim.tier]
        spawn_period == FLEET_SPAWN_PERIOD_WAVE_TABLE[sim.tier]
        spawn_count == FLEET_SPAWN_COUNT_TABLE[sim.tier]
    IN  IF min_wave = NoneValue \/ min_wave > wave
        THEN 0
        ELSE IF (wave - min_wave) % spawn_period = 0 THEN spawn_count ELSE 0

\* bisect.bisect on the wave thresholds: the number of entries whose
\* threshold is <= wave, capped at the last index (Python index + 1).
fleet_shard_reward(sim, wave) ==
    LET table == FLEET_MODULE_SHARD_DROP_TABLE
        index == Cardinality({j \in DOMAIN table : table[j][1] <= wave})
        capped == IF index < Len(table) - 1 THEN index ELSE Len(table) - 1
    IN  table[capped + 1][2]

\* (10 + 14) / 2
fleet_children_count == 12

boss_spawn_of(sim, wave) ==
    IF wave % TIER_BOSS_PERIOD[sim.tier] = 0 THEN 1 ELSE 0

package_spawn_of(sim, wave) ==
    IF (wave - 1) % TIER_BOSS_PERIOD[sim.tier] = 0
    THEN Scale
    ELSE sim.package_chance

wave_skip_chance_of(sim) ==
    LET double_skip_chance ==
            IF sim.wave_skip # NoLevel
            THEN Mul(WAVE_SKIP_CHANCE, WAVE_SKIP_MASTERY_TABLE[sim.wave_skip + 1])
            ELSE 0
    IN  double_skip_chance + Mul(WAVE_SKIP_CHANCE, Scale - double_skip_chance)

\* simulate_wave.  free_upgrade_chances is the value of the Simulation's
\* free_upgrade_chances dict; the result refers to the Simulation's
\* enemy_level_skip_chances dict itself.
simulate_wave(sim, free_upgrade_chances, perks, wave) ==
    LET spawn_index == spawn_rate_index(sim, wave)
        spawn_rate == SPAWN_RATE_SEQUENCE[spawn_index]
        common_spawns == Mul(WAVE_DURATION * spawn_rate, SPAWN_RATE_FACTOR)
        elite_spawns == elite_spawn_count(sim, wave)
        fleet_spawns == Fix(fleet_spawn_count(sim, wave))
        free_upgrade_bonus == free_upgrade_chance_bonus(perks, sim)
        spawned ==
            [name \in EnemyNames |->
                CASE name \in DOMAIN SPAWN_CHANCE_TABLE ->
                         Mul(common_spawns, SPAWN_CHANCE_TABLE[name][spawn_index])
                  [] name = "boss" -> Fix(boss_spawn_of(sim, wave))
                  [] name \in {"scatter", "vampire", "ray"} ->
                         Div(elite_spawns, Fix(3))
                  [] OTHER -> Div(fleet_spawns, Fix(3))]
        enemies ==
            [spawned EXCEPT
                !["fast"] = @ + spawned["saboteur"] * fleet_children_count,
                !["tank"] = @ + spawned["commander"] * fleet_children_count,
                !["ranged"] = @ + spawned["overcharge"] * fleet_children_count]
    IN  [wave |-> wave,
         wave_skip |-> wave_skip_chance_of(sim),
         free_upgrades |->
             [name \in DOMAIN free_upgrade_chances |->
                 free_upgrade_chances[name] + free_upgrade_bonus],
         recovery_packages |-> package_spawn_of(sim, wave),
         enemy_level_skips |-> sim.enemy_level_skip_chances,
         enemies |-> enemies]

\* ---------------------------------------------------------------------
\* Reward Calculator
\* ---------------------------------------------------------------------

wave_skip_bonus_lerp(events, noskip, skip) ==
    Mul(Scale - events.wave_skip, noskip) + Mul(events.wave_skip, skip)

EnemyOrder ==
    <<"basic", "fast", "tank", "ranged", "protector", "scatter", "vampire",
      "ray", "boss", "saboteur", "commander", "overcharge">>

\* calculate_coins for scenarios with bhd_bonus = 0 and golden_combo = 0
\* (the defaults), whose two amplifier branches are not taken.
calculate_coins(sim, perks, events, previous_events, previous_rewards) ==
    LET base_bonus == Mul(TIER_COIN_BONUS[sim.tier], coin_bonus(perks, sim))
        bonus == IF sim.coin # NoLevel
                 THEN Mul(base_bonus, COIN_MASTERY_TABLE[sim.coin + 1])
                 ELSE base_bonus
        orb_bonus ==
            IF sim.extra_orb # NoLevel
            THEN Scale + Mul(EXTRA_ORB_MASTERY_TABLE[sim.extra_orb + 1] - Scale,
                             sim.orb_hits)
            ELSE Scale
        coins_per_enemy ==
            [name \in EnemyNames |->
                IF name = "basic" /\ sim.critical_coin # NoLevel
                THEN Mul(Mul(COIN_DROP_TABLE[name], bonus),
                         Scale + CRITICAL_COIN_MASTERY_TABLE[sim.critical_coin + 1])
                ELSE Mul(COIN_DROP_TABLE[name], bonus)]
        coins ==
            SumSeq([i \in DOMAIN EnemyOrder |->
                       Mul(Mul(events.enemies[EnemyOrder[i]],
                               coins_per_enemy[EnemyOrder[i]]),
                           orb_bonus)])
              + Mul(scatter_children_count(events), coins_per_enemy["scatter"])
    IN  wave_skip_bonus_lerp(events, coins,
                             Mul(previous_rewards.coins, WAVE_SKIP_BONUS))

calculate_cells(sim, events, previous_rewards) ==
    LET cells_per_elite ==
            Fix(TIER_CELL_DROP_MIN[sim.tier] + TIER_CELL_DROP_MAX[sim.tier]) \div 2
        total_elite_count ==
            events.enemies["scatter"] + events.enemies["vampire"]
              + events.enemies["ray"]
        elite_cells == Mul(total_elite_count, cells_per_elite)
    IN  wave_skip_bonus_lerp(events, elite_cells,
                             Mul(previous_rewards.elite_cells, WAVE_SKIP_BONUS))

calculate_rerolls(sim, events) ==
    LET rerolls_per_boss == TIER_REROLL_DROP[sim.tier]
        boss_rerolls ==
            Mul(events.enemies["boss"], BOSS_REROLL_SHARD_DROP_CHANCE)
              * rerolls_per_boss
        rerolls_per_fleet == FLEET_REROLL_SHARD_DROP_TABLE[sim.tier]
        fleet_rerolls ==
            Mul(fleet_enemy_count(events), FLEET_REROLL_SHARD_DROP_CHANCE)
              * rerolls_per_fleet
        rerolls_per_elite == Fix(rerolls_per_boss) \div 2
        elite_rerolls ==
            Mul(Mul(elite_enemy_count(events), CASH_MASTERY_TABLE[sim.cash + 1]),
                rerolls_per_elite)
    IN  IF sim.cash # NoLevel
        THEN boss_rerolls + fleet_rerolls
               + wave_skip_bonus_lerp(events, elite_rerolls, 0)
        ELSE boss_rerolls + fleet_rerolls

calculate_modules(sim, events) ==
    LET boss_modules == Mul(events.enemies["boss"], BOSS_COMMON_MODULE_DROP_CHANCE)
        package_modules ==
            Mul(events.recovery_packages,
                RECOVERY_PACKAGE_CHANCE_MASTERY_TABLE[sim.recovery_package + 1])
        common_modules ==
            IF sim.recovery_package # NoLevel
            THEN boss_modules + wave_skip_bonus_lerp(events, package_modules, 0)
            ELSE boss_modules
        rare_modules == Mul(events.enemies["boss"], RARE_MODULE_DROP_CHANCE)
        fleet_shards ==
            Mul(fleet_enemy_count(events), FLEET_MODULE_SHARD_DROP_CHANCE)
              * fleet_shard_reward(sim, events.wave)
    IN  common_modules * COMMON_MODULE_VALUE + rare_modules * RARE_MODULE_VALUE
          + fleet_shards

calculate_rewards(sim, perks, events, previous_events, previous_rewards) ==
    [coins |-> calculate_coins(sim, perks, events, previous_events,
                               previous_rewards),
     elite_cells |-> calculate_cells(sim, events, previous_rewards),
     reroll_shards |-> calculate_rerolls(sim, events),
     module_shards |-> calculate_modules(sim, events)]

\* ---------------------------------------------------------------------
\* Scenarios
\* ---------------------------------------------------------------------

\* Number of regular waves past the transition wave that a scenario asks for.
ExtraWaves == 2

\* Object identities are triples <<kind, owner, wave>>.
FreeUpgradeChancesOf(workshop) == <<"free_upgrade_chances", workshop, 0>>

EnemyLevelSkipChancesOf(workshop) == <<"enemy_level_skip_chances", workshop, 0>>

\* Simulation(): every field at its dataclass default.  The two dict fields
\* hold references to dict objects.
DefaultSimulation ==
    [name |-> "", mastery |-> "", level |-> NoLevel, skip |-> FALSE,
     tier |-> 1, max_waves |-> 0, orb_hits |-> Scale, reward |-> "coins",
     sum_total_stone_cost |-> FALSE, bhd_bonus |-> 0, golden_combo |-> 0,
     free_upgrade_chances |-> FreeUpgradeChancesOf(0),
     package_chance |-> Div(Fix(RECOVERY_PACKAGE_CHANCE), Fix(100)),
     enemy_level_skip_chances |-> EnemyLevelSkipChancesOf(0),
     standard_perk_bonus_lab |-> 25, improved_tradeoff_perk_lab |-> 10,
     perk_option_quantity_lab |-> 2, perk_waves_required_lab |-> 25,
     first_perk_choice |-> FIRST_PERK_CHOICE,
     perk_priority_order |-> PERK_PRIORITY_ORDER,
     perk_bans |-> PERK_BANS,
     cash |-> NoLevel, coin |-> NoLevel, critical_coin |-> NoLevel,
     enemy_balance |-> NoLevel, extra_orb |-> NoLevel,
     intro_sprint |-> NoLevel, recovery_package |-> NoLevel,
     wave_accelerator |-> NoLevel, wave_skip |-> NoLevel]

\* Tier 18 with every reward mastery unlocked at level 0.
MasteredSimulation ==
    [DefaultSimulation EXCEPT
        !.name = "mastered", !.tier = 18, !.max_waves = 100 + ExtraWaves,
        !.free_upgrade_chances = FreeUpgradeChancesOf(1),
        !.enemy_level_skip_chances = EnemyLevelSkipChancesOf(1),
        !.cash = 0, !.coin = 0, !.critical_coin = 0, !.enemy_balance = 0,
        !.extra_orb = 0, !.recovery_package = 0, !.wave_accelerator = 0,
        !.wave_skip = 0]

\* Tier 14 (boss period 9) with perks arriving every 50 waves.
PerkedSimulation ==
    [DefaultSimulation EXCEPT
        !.name = "perked", !.tier = 14, !.max_waves = 100 + ExtraWaves,
        !.free_upgrade_chances = FreeUpgradeChancesOf(1),
        !.enemy_level_skip_chances = EnemyLevelSkipChancesOf(1),
        !.perk_waves_required_lab = 150, !.wave_skip = 3]

\* Tier 16 with the first intro sprint level: K = 180.
SprintSimulation ==
    [DefaultSimulation EXCEPT
        !.name = "sprint", !.tier = 16, !.intro_sprint = 0,
        !.max_waves = INTRO_SPRINT_MASTERY_TABLE[1] + ExtraWaves,
        !.cash = 2]

Scenarios ==
    {DefaultSimulation, MasteredSimulation, PerkedSimulation, SprintSimulation}

\* The dict objects the scenarios hold.
WorkshopDicts ==
    (FreeUpgradeChancesOf(0) :> [name \in {} |-> 0])
    @@ (EnemyLevelSkipChancesOf(0) :> [name \in {} |-> 0])
    @@ (FreeUpgradeChancesOf(1) :>
           [name \in {"attack", "defense", "utility"} |->
               IF name = "attack" THEN 750 ELSE 500])
    @@ (EnemyLevelSkipChancesOf(1) :>
           [name \in {"attack", "health"} |-> IF name = "attack" THEN 100 ELSE 50])

\* Iteration orders of the set of perk names built in
\* active_perks_confidence: insertion order and its reverse.
Reverse(s) == [i \in DOMAIN s |-> s[Len(s) + 1 - i]]

AllPerkKeys == [i \in DOMAIN ALL_PERKS |-> ALL_PERKS[i][1]]

Orders == <<AllPerkKeys, Reverse(AllPerkKeys)>>

\* The fields of a Simulation that active_perks_confidence_sequence reads.
PerkSettings(sim) ==
    [first_perk_choice |-> sim.first_perk_choice,
     perk_priority_order |-> sim.perk_priority_order,
     perk_bans |-> sim.perk_bans,
     perk_option_quantity_lab |-> sim.perk_option_quantity_lab]

EstimatorKey(sim, order) == [settings |-> PerkSettings(sim), iteration |-> order]

\* ---------------------------------------------------------------------
\* State
\* ---------------------------------------------------------------------

VARIABLES
    sims,              \* the batch: a sequence of Simulation configs
    iteration,         \* per run, the set iteration order of its process
    confidence_table,  \* list(active_perks_confidence_sequence(sim)) per key
    heap,              \* object identity -> value, for every live object
    runs,              \* per scenario, the state of its simulate_run generator
    solo,              \* per scenario, a second invocation of simulate_run on
                       \* the same config, alone in a process of its own
    sim_results,       \* the (sim, run_result) pairs yielded so far
    args,              \* the normalization flags of the command line
    pending,           \* the stages normalize_sims has yet to apply
    estimator,         \* the last call of a PerkWaveEstimator method made
                       \* on its own: average with its perk count and
                       \* result, or estimate with the locals of its loop
    baseline_name,     \* the name normalize_sims is given for the baseline
    raised,            \* the exception that has ended main(), if any
    shard_call         \* the last call of fleet_shard_reward made on its
                       \* own: the wave and the result

vars == <<sims, iteration, confidence_table, heap, runs, solo,
          sim_results, args, pending, estimator, baseline_name, raised,
          shard_call>>

\* ---------------------------------------------------------------------
\* Events.__iadd__ on objects
\* ---------------------------------------------------------------------

\* The loop over other.enemy_level_skips.items(): each key of the other
\* dict is read from the heap and added into self's dict.
RECURSIVE AddLevelSkips(_, _, _, _)
AddLevelSkips(h, self_skips, other_skips, keys) ==
    IF keys = {} THEN h
    ELSE LET key == CHOOSE k \in keys : TRUE
             added == [h EXCEPT ![self_skips][key] = @ + h[other_skips][key]]
         IN  AddLevelSkips(added, self_skips, other_skips, keys \ {key})

\* An addition that accumulates the wave skips only.
Events_iadd_skips_only(h, self, other) ==
    [h EXCEPT ![self].wave_skip = @ + other.wave_skip]

\* An addition that adopts the other's enemy_level_skips dict as its own
\* before adding into it.
Events_iadd_adopting(h, self, other) ==
    LET adopted == [h EXCEPT ![self].enemy_level_skips = other.enemy_level_skips]
    IN  AddLevelSkips(adopted, other.enemy_level_skips, other.enemy_level_skips,
                      DOMAIN h[other.enemy_level_skips])

\* self += other, where self is an Events object on the heap and other an
\* Events value.  wave is not accumulated.
Events_iadd(h, self, other) ==
    LET summed ==
            [h[self] EXCEPT
                !.wave_skip = @ + other.wave_skip,
                !.free_upgrades =
                    [key \in DOMAIN @ |->
                        IF key \in DOMAIN other.free_upgrades
                        THEN @[key] + other.free_upgrades[key]
                        ELSE @[key]],
                !.recovery_packages = @ + other.recovery_packages,
                !.enemies = [key \in DOMAIN @ |-> @[key] + other.enemies[key]]]
        h1 == [h EXCEPT ![self] = summed]
    IN  AddLevelSkips(h1, h[self].enemy_level_skips, other.enemy_level_skips,
                      DOMAIN h[other.enemy_level_skips])

\* ---------------------------------------------------------------------
\* simulate_run
\* ---------------------------------------------------------------------

CumulativeEvents(r) == <<"cumulative_events", r, 0>>

CumulativeSkips(r) == <<"cumulative_skips", r, 0>>

CumulativeRewards(r) == <<"cumulative_rewards", r, 0>>

ResultOf(r, wave) == <<"result", r, wave>>

ResultEvents(r, wave) == <<"result_events", r, wave>>

ResultSkips(r, wave) == <<"result_skips", r, wave>>

ResultRewards(r, wave) == <<"result_rewards", r, wave>>

\* A generator that has not been advanced yet.
NewRun ==
    [pc |-> "start", wave |-> 0, elapsed_time |-> 0,
     cumulative_events |-> <<"none", 0, 0>>,
     cumulative_rewards |-> <<"none", 0, 0>>,
     previous_events |-> NewEvents(<<"none", 0, 0>>),
     previous_rewards |-> NewRewards,
     perks |-> perks_default_factory,
     wave_results |-> <<>>]

\* copy.deepcopy(cumulative_events): a new Events object with a new dict.
DeepcopyEvents(h, r, wave, events) ==
    (ResultEvents(r, wave) :>
        [h[events] EXCEPT !.enemy_level_skips = ResultSkips(r, wave)])
    @@ (ResultSkips(r, wave) :> h[h[events].enemy_level_skips])

\* copy.deepcopy(cumulative_rewards)
DeepcopyRewards(h, r, wave, rewards) == ResultRewards(r, wave) :> h[rewards]

\* yield SimulationWaveResult(wave, elapsed_time, deepcopy(...), deepcopy(...))
Yield(h, r, wave, elapsed_time, cumulative_events, cumulative_rewards) ==
    (ResultOf(r, wave) :>
        [wave |-> wave, elapsed_time |-> elapsed_time,
         cumulative_events |-> ResultEvents(r, wave),
         cumulative_rewards |-> ResultRewards(r, wave)])
    @@ DeepcopyEvents(h, r, wave, cumulative_events)
    @@ DeepcopyRewards(h, r, wave, cumulative_rewards)
    @@ h

\* Lines 1251-1262: the locals and the wave-0 snapshot.
StartRun(h, r, run) ==
    LET h1 == (CumulativeEvents(r) :> NewEvents(CumulativeSkips(r)))
              @@ (CumulativeSkips(r) :> enemy_level_skip_default_factory)
              @@ (CumulativeRewards(r) :> NewRewards)
              @@ h
    IN  [heap |-> Yield(h1, r, 0, 0, CumulativeEvents(r), CumulativeRewards(r)),
         run |-> [run EXCEPT
                     !.pc = "intro", !.wave = 1,
                     !.cumulative_events = CumulativeEvents(r),
                     !.cumulative_rewards = CumulativeRewards(r),
                     !.wave_results = <<ResultOf(r, 0)>>]]

\* An intro wave that forces the skip but keeps the tier's boss schedule.
IntroEvents_boss_period(events, wave) ==
    IF wave = 1 \/ wave % 10 = 0
    THEN [events EXCEPT !.wave_skip = 0]
    ELSE [events EXCEPT !.wave_skip = Fix(1)]

\* An intro phase whose first wave is skipped like the ones after it.
IntroEvents_first_skipped(events, wave) ==
    IF wave % 10 = 0
    THEN [events EXCEPT !.wave_skip = 0, !.enemies["boss"] = Fix(1)]
    ELSE [events EXCEPT !.wave_skip = Fix(1), !.enemies["boss"] = 0]

\* Lines 1274-1281: the forced skip and boss of an intro wave.
IntroEvents(events, wave) ==
    IF wave = 1 \/ wave % 10 = 0
    THEN [events EXCEPT !.wave_skip = 0, !.enemies["boss"] = Fix(1)]
    ELSE [events EXCEPT !.wave_skip = Fix(1), !.enemies["boss"] = 0]

\* A transition wave that keeps the skip chance the wave simulator gave it.
TransitionEvents_unforced(events) == events

\* Line 1307: the transition wave is guaranteed not to skip.
TransitionEvents(events) == [events EXCEPT !.wave_skip = 0]

PhaseEvents(phase, events, wave) ==
    CASE phase = "intro" -> IntroEvents(events, wave)
      [] phase = "transition" -> TransitionEvents(events)
      [] OTHER -> events

\* An intro degradation that scales the cells but keeps the other rewards.
IntroRewards_keep_others(rewards) ==
    [rewards EXCEPT !.elite_cells = Mul(rewards.elite_cells, 200)]

\* Line 1285: Rewards(elite_cells=rewards.elite_cells * 0.2)
IntroRewards(rewards) ==
    [NewRewards EXCEPT !.elite_cells = Mul(rewards.elite_cells, 200)]

PhaseRewards(phase, rewards) ==
    IF phase = "intro" THEN IntroRewards(rewards) ELSE rewards

\* The wave time scaled by the skip probability instead of its complement.
WaveTime_skipped(phase, sim, perks, events) ==
    LET wave_time ==
            IF phase = "transition"
            THEN WAVE_DURATION + WAVE_COOLDOWN
            ELSE Mul(WAVE_DURATION + WAVE_COOLDOWN, events.wave_skip)
    IN  Div(wave_time, Mul(GAME_SPEED, game_speed_factor(perks, sim)))

\* Lines 1286-1287, 1309-1310 and 1331-1332.
WaveTime(phase, sim, perks, events) ==
    LET wave_time ==
            IF phase = "transition"
            THEN WAVE_DURATION + WAVE_COOLDOWN
            ELSE Mul(WAVE_DURATION + WAVE_COOLDOWN, Scale - events.wave_skip)
    IN  Div(wave_time, Mul(GAME_SPEED, game_speed_factor(perks, sim)))

\* The wave a generator processes after wave, and the phase it is in.
NextPhase(sim, wave) ==
    IF wave + 1 < max_intro_wave(sim) THEN "intro"
    ELSE IF wave + 1 = max_intro_wave(sim) THEN "transition"
    ELSE "regular"

\* One pass through the body of a wave loop (or the transition block), up
\* to and including its yield.
WaveStep(h, r, sim, run, confidences, phase) ==
    Let(estimate(confidences, sim, run.wave, run.perks), LAMBDA perks :
    Let(PhaseEvents(phase,
                    simulate_wave(sim, h[sim.free_upgrade_chances], perks, run.wave),
                    run.wave), LAMBDA events :
    Let(PhaseRewards(phase,
                     calculate_rewards(sim, perks, events, run.previous_events,
                                       run.previous_rewards)), LAMBDA rewards :
        LET wave == run.wave
            wave_time == WaveTime(phase, sim, perks, events)
            h1 == Events_iadd(h, run.cumulative_events, events)
            h2 == [h1 EXCEPT ![run.cumulative_rewards] = Rewards_iadd(@, rewards)]
            elapsed_time == run.elapsed_time + wave_time
        IN  [heap |-> Yield(h2, r, wave, elapsed_time, run.cumulative_events,
                            run.cumulative_rewards),
             run |-> [run EXCEPT
                         !.pc = NextPhase(sim, wave),
                         !.wave = wave + 1,
                         !.elapsed_time = elapsed_time,
                         !.previous_events = events,
                         !.previous_rewards = rewards,
                         !.perks = perks,
                         !.wave_results = Append(@, ResultOf(r, wave))]])))

\* The list held by the PerkWaveEstimator (line 1264) of a run of sim in a
\* process with the given set order.
Confidences(sim, order) == confidence_table[EstimatorKey(sim, order)]

\* Advance run r of the batch, and the invocation that runs alone with it.
Advance(r, stepped, alone) ==
    /\ heap' = stepped.heap
    /\ runs' = [runs EXCEPT ![r] = stepped.run]
    /\ solo' = [solo EXCEPT ![r].heap = alone.heap, ![r].run = alone.run]
    /\ UNCHANGED <<sims, iteration, confidence_table, sim_results, args,
                   pending, estimator,
                   baseline_name, raised, shard_call>>

\* First next(): runs to the wave-0 yield.
Start(r) ==
    /\ runs[r].pc = "start"
    /\ \E stepped \in {StartRun(heap, r, runs[r])},
          alone \in {StartRun(solo[r].heap, r, solo[r].run)} :
           Advance(r, stepped, alone)

Resume(r, phase) ==
    /\ runs[r].pc = phase
    /\ \E stepped \in {WaveStep(heap, r, sims[r], runs[r],
                                 Confidences(sims[r], iteration[r]), phase)},
          alone \in {WaveStep(solo[r].heap, r, sims[r], solo[r].run,
                              Confidences(sims[r], solo[r].iteration), phase)} :
           Advance(r, stepped, alone)

\* for wave in range(1, intro_wave_count)
IntroWave(r) ==
    /\ runs[r].wave < max_intro_wave(sims[r])
    /\ Resume(r, "intro")

\* The first regular wave after intro sprint.
TransitionWave(r) ==
    /\ runs[r].wave = max_intro_wave(sims[r])
    /\ Resume(r, "transition")

\* for wave in range(intro_wave_count + 1, sim.max_waves + 1)
RegularWave(r) ==
    /\ runs[r].wave <= sims[r].max_waves
    /\ Resume(r, "regular")

\* The regular loop is exhausted: the generator returns.
Finish(r) ==
    /\ runs[r].pc = "regular"
    /\ runs[r].wave > sims[r].max_waves
    /\ runs' = [runs EXCEPT ![r].pc = "done"]
    /\ solo' = [solo EXCEPT ![r].run.pc = "done"]
    /\ UNCHANGED <<sims, iteration, confidence_table, heap,
                   sim_results, args, pending, estimator,
                   baseline_name, raised, shard_call>>

\* ---------------------------------------------------------------------
\* evaluate_sims
\* ---------------------------------------------------------------------

\* An optional float: None, or a value.
None == <<>>

Some(value) == <<value>>

\* run_result is None: the scenario was skipped.
NoResult == <<"none", 0, 0>>

\* Identities of the objects a stage allocates for the r-th scenario.
RunResultRef(stage, r) == <<stage \o ".run_result", r, 0>>

WaveResultsRef(stage, r) == <<stage \o ".wave_results", r, 0>>

WaveResultRef(stage, r, i) == <<stage \o ".wave_result", r, i>>

EventsRef(stage, r, i) == <<stage \o ".cumulative_events", r, i>>

SkipsRef(stage, r, i) == <<stage \o ".enemy_level_skips", r, i>>

RewardsRef(stage, r, i) == <<stage \o ".cumulative_rewards", r, i>>

reward_value(sim, rewards) ==
    CASE sim.reward = "coins" -> rewards.coins
      [] sim.reward = "cells" -> rewards.elite_cells
      [] sim.reward = "rerolls" -> rewards.reroll_shards
      [] sim.reward = "modules" -> rewards.module_shards

stone_cost(sim) ==
    IF ~sim.sum_total_stone_cost
    THEN IF sim.mastery = "" THEN 0 ELSE MASTERY_STONE_COSTS[sim.mastery]
    ELSE (IF sim.cash # NoLevel THEN MASTERY_STONE_COSTS["cash"] ELSE 0)
       + (IF sim.coin # NoLevel THEN MASTERY_STONE_COSTS["coin"] ELSE 0)
       + (IF sim.critical_coin # NoLevel THEN MASTERY_STONE_COSTS["critical-coin"] ELSE 0)
       + (IF sim.enemy_balance # NoLevel THEN MASTERY_STONE_COSTS["enemy-balance"] ELSE 0)
       + (IF sim.extra_orb # NoLevel THEN MASTERY_STONE_COSTS["extra-orb"] ELSE 0)
       + (IF sim.intro_sprint # NoLevel THEN MASTERY_STONE_COSTS["intro-sprint"] ELSE 0)
       + (IF sim.recovery_package # NoLevel THEN MASTERY_STONE_COSTS["recovery-package"] ELSE 0)
       + (IF sim.wave_accelerator # NoLevel THEN MASTERY_STONE_COSTS["wave-accelerator"] ELSE 0)
       + (IF sim.wave_skip # NoLevel THEN MASTERY_STONE_COSTS["wave-skip"] ELSE 0)

\* The list object of a run result, and its last snapshot.
WaveResultsOf(h, run_result) == h[h[run_result].wave_results]

LastOf(h, run_result) ==
    WaveResultsOf(h, run_result)[Len(WaveResultsOf(h, run_result))]

\* The scenario evaluate_sims is at: those before it have been yielded.
Evaluating(r) == Len(sim_results) = r - 1 /\ ~sims[r].skip /\ raised = None

\* reward_value reaches its raise: sim.reward is none of the four names.
InvalidReward(sim) == sim.reward \notin Range(REWARD_NAMES)

\* One iteration of evaluate_sims once the run is in a list: yield
\* (sim, None) for a skipped scenario, else (sim, SimulationRunResult),
\* unless reward_value raises on the last snapshot of the list.
EvaluateSim(r) ==
    /\ Len(sim_results) = r - 1
    /\ pending = <<"normalize_sims">>
    /\ raised = None
    /\ sims[r].skip \/ runs[r].pc = "done"
    /\ raised' = IF ~sims[r].skip /\ InvalidReward(sims[r])
                 THEN Some("ValueError") ELSE None
    /\ IF sims[r].skip
       THEN /\ sim_results' =
                   Append(sim_results, [sim |-> sims[r], run_result |-> NoResult])
            /\ heap' = heap
       ELSE IF InvalidReward(sims[r])
       THEN UNCHANGED <<heap, sim_results>>
       ELSE /\ sim_results' =
                   Append(sim_results,
                          [sim |-> sims[r],
                           run_result |-> RunResultRef("evaluate_sims", r)])
            /\ heap' =
                   (WaveResultsRef("evaluate_sims", r) :> runs[r].wave_results)
                   @@ (RunResultRef("evaluate_sims", r) :>
                         [wave_results |-> WaveResultsRef("evaluate_sims", r),
                          total |->
                              Some(reward_value(
                                  sims[r],
                                  heap[heap[runs[r].wave_results[
                                      Len(runs[r].wave_results)]].cumulative_rewards])),
                          relative |-> None,
                          roi |-> None])
                   @@ heap
    /\ UNCHANGED <<sims, iteration, confidence_table, runs, solo, args,
                   pending, estimator, baseline_name, shard_call>>

\* ---------------------------------------------------------------------
\* Data normalization
\* ---------------------------------------------------------------------

\* bisect.bisect_left(a, x, key=...) over the keys of a, 0-based.
RECURSIVE bisect_left(_, _, _, _)
\* An insertion point behind the first of two equal keys that are not less
\* than x.
RECURSIVE bisect_left_behind_first(_, _, _, _)
bisect_left_behind_first(keys, x, lo, hi) ==
    IF lo >= hi THEN lo
    ELSE IF keys[lo + 1] < x
    THEN bisect_left_behind_first(keys, x, lo + 1, hi)
    ELSE IF lo + 1 < hi /\ keys[lo + 2] = keys[lo + 1]
    THEN lo + 1
    ELSE lo

bisect_left(keys, x, lo, hi) ==
    IF lo >= hi THEN lo
    ELSE LET mid == (lo + hi) \div 2
         IN  IF keys[mid + 1] < x
             THEN bisect_left(keys, x, mid + 1, hi)
             ELSE bisect_left(keys, x, lo, mid)

\* An insertion point that leaves the keys equal to x on its right.
RECURSIVE bisect_right_strict(_, _, _, _)
bisect_right_strict(keys, x, lo, hi) ==
    IF lo >= hi THEN lo
    ELSE LET mid == (lo + hi) \div 2
         IN  IF x <= keys[mid + 1]
             THEN bisect_right_strict(keys, x, lo, mid)
             ELSE bisect_right_strict(keys, x, mid + 1, hi)

\* bisect.bisect(a, x, key=...): the insertion point right of equal keys.
RECURSIVE bisect_right(_, _, _, _)
bisect_right(keys, x, lo, hi) ==
    IF lo >= hi THEN lo
    ELSE LET mid == (lo + hi) \div 2
         IN  IF x < keys[mid + 1]
             THEN bisect_right(keys, x, lo, mid)
             ELSE bisect_right(keys, x, mid + 1, hi)

\* key=lambda x: x.elapsed_time
ElapsedTimes(h, wave_results) ==
    [i \in DOMAIN wave_results |-> h[wave_results[i]].elapsed_time]

\* The interpolation branch of results_at_time: the two snapshots it picks
\* and the basis it divides by; None where it returns at an end of the list.
InterpolationBranch(h, run_result, elapsed_time) ==
    LET wave_results == WaveResultsOf(h, run_result)
        index == bisect_left(ElapsedTimes(h, wave_results), elapsed_time,
                             0, Len(wave_results))
    IN  IF index = 0 \/ index = Len(wave_results)
        THEN None
        ELSE Some([lower_result |-> wave_results[index],
                   higher_result |-> wave_results[index + 1],
                   basis |-> h[wave_results[index + 1]].elapsed_time
                               - h[wave_results[index]].elapsed_time])

\* A lookup that stops at the snapshot before the time asked for.
results_at_time_stepwise(h, run_result, elapsed_time) ==
    LET wave_results == WaveResultsOf(h, run_result)
        index == bisect_left(ElapsedTimes(h, wave_results), elapsed_time,
                             0, Len(wave_results))
    IN  IF index = 0
        THEN [lower_result |-> wave_results[1],
              higher_result |-> wave_results[1],
              lambda_ |-> 0]
        ELSE [lower_result |-> wave_results[index],
              higher_result |-> wave_results[index],
              lambda_ |-> 0]

results_at_time(h, run_result, elapsed_time) ==
    LET wave_results == WaveResultsOf(h, run_result)
        index == bisect_left(ElapsedTimes(h, wave_results), elapsed_time,
                             0, Len(wave_results))
    IN  IF index = 0
        THEN [lower_result |-> wave_results[1],
              higher_result |-> wave_results[1],
              lambda_ |-> 0]
        ELSE IF index = Len(wave_results)
        THEN [lower_result |-> wave_results[Len(wave_results)],
              higher_result |-> wave_results[Len(wave_results)],
              lambda_ |-> Fix(1)]
        ELSE [lower_result |-> wave_results[index],
              higher_result |-> wave_results[index + 1],
              lambda_ |->
                  Div(elapsed_time - h[wave_results[index]].elapsed_time,
                      h[wave_results[index + 1]].elapsed_time
                        - h[wave_results[index]].elapsed_time)]

\* Rewards.__add__, __sub__, __mul__: the in-place operation on a deepcopy
\* of self, so a new object holding the combined value.
Rewards_add(self, other) == Rewards_iadd(self, other)

Rewards_sub(self, other) == Rewards_isub(self, other)

Rewards_mul(self, factor) == Rewards_imul(self, factor)

\* self * (1 / divisor).  In floats the product with the reciprocal is the
\* quotient to within one rounding; it is computed as the quotient here,
\* since a reciprocal rounded to the fixed-point scale would lose it.
Rewards_mul_reciprocal(self, divisor) ==
    [f \in RewardFields |-> Div(self[f], divisor)]

rewards_at_time(h, run_result, elapsed_time) ==
    Let(results_at_time(h, run_result, elapsed_time), LAMBDA at :
        LET lower_rewards == h[h[at.lower_result].cumulative_rewards]
            higher_rewards == h[h[at.higher_result].cumulative_rewards]
        IN  Rewards_add(lower_rewards,
                        Rewards_mul(Rewards_sub(higher_rewards, lower_rewards),
                                    at.lambda_)))

relative_value(lhs, rhs) == IF rhs = 0 THEN 0 ELSE Div(lhs, rhs) - Fix(1)

relative_rewards(lhs, rhs) ==
    [f \in RewardFields |-> relative_value(lhs[f], rhs[f])]

\* The elapsed time of the last snapshot of every run that was not skipped.
FinalTimes(h, results) ==
    {h[LastOf(h, results[q].run_result)].elapsed_time :
        q \in {q \in DOMAIN results : results[q].run_result # NoResult}}

\* next(... for sim, run_result in sim_results if sim.name == baseline_sim_name)
Baseline(results, name) ==
    results[CHOOSE q \in DOMAIN results :
                /\ results[q].sim.name = name
                /\ \A p \in 1..(q - 1) : results[p].sim.name # name]

\* copy.deepcopy of the snapshots sources[i]: for each a new
\* SimulationWaveResult, Events, enemy_level_skips dict and Rewards.  No
\* two of the sources share an object.
deepcopy_wave_results(h, sources, stage, r) ==
    [id \in {WaveResultRef(stage, r, i) : i \in DOMAIN sources} |->
        [h[sources[id[3]]] EXCEPT
            !.cumulative_events = EventsRef(stage, r, id[3]),
            !.cumulative_rewards = RewardsRef(stage, r, id[3])]]
    @@ [id \in {EventsRef(stage, r, i) : i \in DOMAIN sources} |->
        [h[h[sources[id[3]]].cumulative_events] EXCEPT
            !.enemy_level_skips = SkipsRef(stage, r, id[3])]]
    @@ [id \in {SkipsRef(stage, r, i) : i \in DOMAIN sources} |->
        h[h[h[sources[id[3]]].cumulative_events].enemy_level_skips]]
    @@ [id \in {RewardsRef(stage, r, i) : i \in DOMAIN sources} |->
        h[h[sources[id[3]]].cumulative_rewards]]

\* A list used in place, where the code takes a deepcopy of it.
deepcopy_list_shared(h, wave_results, stage, r) ==
    [heap |-> h, ref |-> wave_results]

\* copy.deepcopy(run_result.wave_results): a new list of new snapshots.
deepcopy_list(h, wave_results, stage, r) ==
    [heap |->
        (WaveResultsRef(stage, r) :>
            [i \in DOMAIN h[wave_results] |-> WaveResultRef(stage, r, i)])
        @@ deepcopy_wave_results(h, h[wave_results], stage, r)
        @@ h,
     ref |-> WaveResultsRef(stage, r)]

\* [dataclasses.replace(wave_result, cumulative_rewards=rewards[i]) ...]
\* for the snapshots sources[i]: new SimulationWaveResult objects that
\* keep the cumulative_events object of their source.
replace_rewards(h, sources, rewards, stage, r) ==
    [id \in {WaveResultRef(stage, r, i) : i \in DOMAIN sources} |->
        [h[sources[id[3]]] EXCEPT
            !.cumulative_rewards = RewardsRef(stage, r, id[3])]]
    @@ [id \in {RewardsRef(stage, r, i) : i \in DOMAIN sources} |->
        rewards[id[3]]]

\* The new list of a stage that rebuilds every snapshot.
NewList(wave_results, stage, r) ==
    WaveResultsRef(stage, r) :>
        [i \in DOMAIN wave_results |-> WaveResultRef(stage, r, i)]

\* dataclasses.replace(run_result, ...): a new SimulationRunResult.
Replaced(h, stage, r, replaced) ==
    [heap |-> (RunResultRef(stage, r) :> replaced) @@ h,
     run_result |-> RunResultRef(stage, r)]

truncate_sims_to_shortest(h, results, r) ==
    LET stage == "truncate_sims_to_shortest"
        run_result == results[r].run_result
        min_time == Min(FinalTimes(h, results))
        all == WaveResultsOf(h, run_result)
        index == bisect_right(ElapsedTimes(h, all), min_time, 0, Len(all))
        wave_results == SubSeq(all, 1, index)
        total == reward_value(
                     results[r].sim,
                     h[h[wave_results[Len(wave_results)]].cumulative_rewards])
    IN  Replaced((WaveResultsRef(stage, r) :> wave_results) @@ h, stage, r,
                 [h[run_result] EXCEPT
                     !.wave_results = WaveResultsRef(stage, r),
                     !.total = Some(total)])

\* A loop whose snapshots advance the elapsed time and keep the rewards.
RECURSIVE ExtendLoop_elapsed_only(_, _, _, _, _)
ExtendLoop_elapsed_only(h, extended_waves, avg_rewards, max_time, r) ==
    LET stage == "extend_sims"
        last == h[extended_waves][Len(h[extended_waves])]
        i == Len(h[extended_waves]) + 1
        copied == deepcopy_wave_results(h, i :> last, stage, r) @@ h
        appended ==
            [copied EXCEPT
                ![WaveResultRef(stage, r, i)].elapsed_time =
                    @ + WAVE_DURATION + WAVE_COOLDOWN,
                ![extended_waves] = Append(@, WaveResultRef(stage, r, i))]
    IN  IF h[last].elapsed_time < max_time
        THEN ExtendLoop_elapsed_only(appended, extended_waves, avg_rewards,
                                     max_time, r)
        ELSE h

\* A loop that goes on while the last elapsed time is at most max_time.
RECURSIVE ExtendLoop_inclusive(_, _, _, _, _)
ExtendLoop_inclusive(h, extended_waves, avg_rewards, max_time, r) ==
    LET stage == "extend_sims"
        last == h[extended_waves][Len(h[extended_waves])]
        i == Len(h[extended_waves]) + 1
        copied == deepcopy_wave_results(h, i :> last, stage, r) @@ h
        appended ==
            [copied EXCEPT
                ![RewardsRef(stage, r, i)] = Rewards_iadd(@, avg_rewards),
                ![WaveResultRef(stage, r, i)].elapsed_time =
                    @ + WAVE_DURATION + WAVE_COOLDOWN,
                ![extended_waves] = Append(@, WaveResultRef(stage, r, i))]
    IN  IF h[last].elapsed_time <= max_time
        THEN ExtendLoop_inclusive(appended, extended_waves, avg_rewards,
                                  max_time, r)
        ELSE h

\* while extended_waves[-1].elapsed_time < max_time: append a deepcopy of
\* the last snapshot advanced by one average wave.
RECURSIVE ExtendLoop(_, _, _, _, _)
ExtendLoop(h, extended_waves, avg_rewards, max_time, r) ==
    LET stage == "extend_sims"
        last == h[extended_waves][Len(h[extended_waves])]
        i == Len(h[extended_waves]) + 1
        copied == deepcopy_wave_results(h, i :> last, stage, r) @@ h
        appended ==
            [copied EXCEPT
                ![RewardsRef(stage, r, i)] = Rewards_iadd(@, avg_rewards),
                ![WaveResultRef(stage, r, i)].elapsed_time =
                    @ + WAVE_DURATION + WAVE_COOLDOWN,
                ![extended_waves] = Append(@, WaveResultRef(stage, r, i))]
    IN  IF h[last].elapsed_time < max_time
        THEN ExtendLoop(appended, extended_waves, avg_rewards, max_time, r)
        ELSE h

extend_sims(h, results, r) ==
    LET stage == "extend_sims"
        run_result == results[r].run_result
        max_time == Max(FinalTimes(h, results))
        wave_time == WAVE_DURATION + WAVE_COOLDOWN
        total_rewards == h[h[LastOf(h, run_result)].cumulative_rewards]
        duration == h[LastOf(h, run_result)].elapsed_time
        avg_rewards ==
            [f \in RewardFields |->
                Mul(Div(total_rewards[f], duration), wave_time)]
        copy == deepcopy_list(h, h[run_result].wave_results, stage, r)
        extended == ExtendLoop(copy.heap, copy.ref, avg_rewards, max_time, r)
        total == reward_value(
                     results[r].sim,
                     extended[extended[extended[copy.ref][
                         Len(extended[copy.ref])]].cumulative_rewards])
    IN  Replaced(extended, stage, r,
                 [h[run_result] EXCEPT
                     !.wave_results = copy.ref,
                     !.total = Some(total)])

normalize_sims_vs_elapsed(h, results, r) ==
    LET stage == "normalize_sims_vs_elapsed"
        run_result == results[r].run_result
        wave_results == WaveResultsOf(h, run_result)
        rest == [i \in 2..Len(wave_results) |-> wave_results[i]]
        normalized_rewards ==
            [i \in DOMAIN rest |->
                Rewards_mul_reciprocal(h[h[rest[i]].cumulative_rewards],
                                       h[rest[i]].elapsed_time)]
    IN  Replaced(NewList(wave_results, stage, r)
                 @@ deepcopy_wave_results(h, 1 :> wave_results[1], stage, r)
                 @@ replace_rewards(h, rest, normalized_rewards, stage, r)
                 @@ h,
                 stage, r,
                 [h[run_result] EXCEPT
                     !.wave_results = WaveResultsRef(stage, r)])

normalize_sims_vs_baseline(h, results, r, baseline_sim_name) ==
    LET stage == "normalize_sims_vs_baseline"
        run_result == results[r].run_result
        baseline_results == Baseline(results, baseline_sim_name).run_result
        wave_results == WaveResultsOf(h, run_result)
        normalized_rewards ==
            [i \in DOMAIN wave_results |->
                relative_rewards(
                    h[h[wave_results[i]].cumulative_rewards],
                    rewards_at_time(h, baseline_results,
                                    h[wave_results[i]].elapsed_time))]
        relative ==
            IF wave_results = <<>> THEN 0
            ELSE reward_value(results[r].sim,
                              normalized_rewards[Len(wave_results)])
    IN  Replaced(NewList(wave_results, stage, r)
                 @@ replace_rewards(h, wave_results, normalized_rewards, stage, r)
                 @@ h,
                 stage, r,
                 [h[run_result] EXCEPT
                     !.wave_results = WaveResultsRef(stage, r),
                     !.relative = Some(relative)])

normalize_sims_vs_stone_cost(h, results, r) ==
    LET stage == "normalize_sims_vs_stone_cost"
        run_result == results[r].run_result
        wave_results == WaveResultsOf(h, run_result)
        cost == stone_cost(results[r].sim)
        normalized_rewards ==
            [i \in DOMAIN wave_results |->
                IF cost = 0 THEN NewRewards
                ELSE Rewards_mul_reciprocal(
                         h[h[wave_results[i]].cumulative_rewards], Fix(cost))]
        roi ==
            IF cost = 0 \/ wave_results = <<>> THEN None
            ELSE Some(reward_value(results[r].sim,
                                   normalized_rewards[Len(wave_results)]))
    IN  Replaced(NewList(wave_results, stage, r)
                 @@ replace_rewards(h, wave_results, normalized_rewards, stage, r)
                 @@ h,
                 stage, r,
                 [h[run_result] EXCEPT
                     !.wave_results = WaveResultsRef(stage, r),
                     !.roi = roi])

annotate_sims_vs_baseline(h, results, r, baseline_sim_name) ==
    LET stage == "annotate_sims_vs_baseline"
        run_result == results[r].run_result
        baseline == Baseline(results, baseline_sim_name)
        baseline_value ==
            reward_value(baseline.sim,
                         h[h[LastOf(h, baseline.run_result)].cumulative_rewards])
        run_max ==
            reward_value(results[r].sim,
                         h[h[LastOf(h, run_result)].cumulative_rewards])
        relative ==
            IF baseline_value # 0
            THEN Div(run_max, baseline_value) - Fix(1)
            ELSE 0
    IN  Replaced(h, stage, r, [h[run_result] EXCEPT !.relative = Some(relative)])

annotate_sims_vs_stone_cost(h, results, r) ==
    LET stage == "annotate_sims_vs_stone_cost"
        run_result == results[r].run_result
        cost == stone_cost(results[r].sim)
    IN  IF h[run_result].relative = None \/ cost = 0
        THEN [heap |-> h, run_result |-> run_result]
        ELSE Replaced(h, stage, r,
                      [h[run_result] EXCEPT
                          !.roi = Some(Div(h[run_result].relative[1], Fix(cost)))])

difference_sims_vs_baseline(h, results, r, baseline_sim_name) ==
    LET stage == "difference_sims_vs_baseline"
        run_result == results[r].run_result
        baseline_results == Baseline(results, baseline_sim_name).run_result
        wave_results == WaveResultsOf(h, run_result)
        differenced_rewards ==
            [i \in DOMAIN wave_results |->
                Rewards_sub(
                    h[h[wave_results[i]].cumulative_rewards],
                    rewards_at_time(h, baseline_results,
                                    h[wave_results[i]].elapsed_time))]
    IN  Replaced(NewList(wave_results, stage, r)
                 @@ replace_rewards(h, wave_results, differenced_rewards, stage, r)
                 @@ h,
                 stage, r,
                 [h[run_result] EXCEPT
                     !.wave_results = WaveResultsRef(stage, r)])

\* The body of a stage's loop for the r-th pair of its input.
StageBody(stage, h, results, r, baseline_sim_name) ==
    CASE stage = "truncate_sims_to_shortest" ->
             truncate_sims_to_shortest(h, results, r)
      [] stage = "extend_sims" -> extend_sims(h, results, r)
      [] stage = "normalize_sims_vs_elapsed" ->
             normalize_sims_vs_elapsed(h, results, r)
      [] stage = "normalize_sims_vs_baseline" ->
             normalize_sims_vs_baseline(h, results, r, baseline_sim_name)
      [] stage = "normalize_sims_vs_stone_cost" ->
             normalize_sims_vs_stone_cost(h, results, r)
      [] stage = "annotate_sims_vs_baseline" ->
             annotate_sims_vs_baseline(h, results, r, baseline_sim_name)
      [] stage = "annotate_sims_vs_stone_cost" ->
             annotate_sims_vs_stone_cost(h, results, r)
      [] stage = "difference_sims_vs_baseline" ->
             difference_sims_vs_baseline(h, results, r, baseline_sim_name)

\* A loop that yields nothing for a pair without a run result.
RECURSIVE ForEachSim_dropping(_, _, _, _, _, _)
ForEachSim_dropping(stage, h, results, r, baseline_sim_name, yielded) ==
    IF r > Len(results) THEN [heap |-> h, sim_results |-> yielded]
    ELSE IF results[r].run_result = NoResult
    THEN ForEachSim_dropping(stage, h, results, r + 1, baseline_sim_name,
                             yielded)
    ELSE Let(StageBody(stage, h, results, r, baseline_sim_name), LAMBDA body :
             ForEachSim_dropping(stage, body.heap, results, r + 1,
                                 baseline_sim_name,
                                 Append(yielded,
                                        [sim |-> results[r].sim,
                                         run_result |-> body.run_result])))

\* list(stage(sim_results)): the loop over the input pairs, from the r-th
\* on; a pair without a run result is yielded as it is.
RECURSIVE ForEachSim(_, _, _, _, _, _)
ForEachSim(stage, h, results, r, baseline_sim_name, yielded) ==
    IF r > Len(results) THEN [heap |-> h, sim_results |-> yielded]
    ELSE IF results[r].run_result = NoResult
    THEN ForEachSim(stage, h, results, r + 1, baseline_sim_name,
                    Append(yielded, results[r]))
    ELSE Let(StageBody(stage, h, results, r, baseline_sim_name), LAMBDA body :
             ForEachSim(stage, body.heap, results, r + 1, baseline_sim_name,
                        Append(yielded,
                               [sim |-> results[r].sim,
                                run_result |-> body.run_result])))

\* The assertions of the stages: the baseline was not skipped, and no
\* snapshot after the first has elapsed time 0.
AssertionFails(stage, h, results, baseline_sim_name) ==
    \/ /\ stage \in {"normalize_sims_vs_baseline", "annotate_sims_vs_baseline",
                     "difference_sims_vs_baseline"}
       /\ Baseline(results, baseline_sim_name).run_result = NoResult
    \/ /\ stage = "normalize_sims_vs_elapsed"
       /\ \E q \in DOMAIN results :
              /\ results[q].run_result # NoResult
              /\ \E i \in 2..Len(WaveResultsOf(h, results[q].run_result)) :
                     h[WaveResultsOf(h, results[q].run_result)[i]].elapsed_time = 0

\* The stages that begin by looking the baseline up.
BaselineStages ==
    {"normalize_sims_vs_baseline", "annotate_sims_vs_baseline",
     "difference_sims_vs_baseline"}

\* The exception that ends list(stage(sim_results)), if any: the next() of
\* the baseline lookup finds no scenario of that name and its StopIteration
\* leaves the generator as a RuntimeError, or an assertion fails.
Raises(stage, h, results, baseline_sim_name) ==
    IF /\ stage \in BaselineStages
       /\ \A q \in DOMAIN results : results[q].sim.name # baseline_sim_name
    THEN Some("RuntimeError")
    ELSE IF AssertionFails(stage, h, results, baseline_sim_name)
    THEN Some("AssertionError")
    ELSE None

\* The flags of argparse that normalize_sims reads, as main() admits them.
Args ==
    {a \in [truncate : BOOLEAN, extend : BOOLEAN, elapsed : BOOLEAN,
            relative : BOOLEAN, roi : BOOLEAN, difference : BOOLEAN] :
        /\ ~(a.relative /\ a.difference)
        /\ ~(a.truncate /\ a.extend)
        /\ a.roi => a.relative}

DefaultArgs ==
    [truncate |-> FALSE, extend |-> FALSE, elapsed |-> FALSE,
     relative |-> FALSE, roi |-> FALSE, difference |-> FALSE]

\* The stages with the elapsed stage applied a second time when the
\* relative flag is combined with it.
Stages_elapsed_twice(a) ==
    (IF a.truncate THEN <<"truncate_sims_to_shortest">>
     ELSE IF a.extend THEN <<"extend_sims">>
     ELSE <<>>)
    \o (IF a.elapsed
        THEN (IF a.relative
              THEN <<"normalize_sims_vs_elapsed", "normalize_sims_vs_elapsed">>
              ELSE <<"normalize_sims_vs_elapsed">>)
        ELSE <<>>)
    \o (IF a.relative
        THEN <<"normalize_sims_vs_baseline">>
             \o (IF a.roi THEN <<"normalize_sims_vs_stone_cost">>
                 ELSE <<"annotate_sims_vs_stone_cost">>)
        ELSE <<"annotate_sims_vs_baseline", "annotate_sims_vs_stone_cost">>)
    \o (IF a.difference THEN <<"difference_sims_vs_baseline">> ELSE <<>>)

\* The stages without the annotation against the baseline.
Stages_unannotated(a) ==
    (IF a.truncate THEN <<"truncate_sims_to_shortest">>
     ELSE IF a.extend THEN <<"extend_sims">>
     ELSE <<>>)
    \o (IF a.elapsed THEN <<"normalize_sims_vs_elapsed">> ELSE <<>>)
    \o (IF a.relative
        THEN <<"normalize_sims_vs_baseline">>
             \o (IF a.roi THEN <<"normalize_sims_vs_stone_cost">>
                 ELSE <<"annotate_sims_vs_stone_cost">>)
        ELSE <<"annotate_sims_vs_stone_cost">>)
    \o (IF a.difference THEN <<"difference_sims_vs_baseline">> ELSE <<>>)

\* The stages normalize_sims applies for the flags, in order.
Stages(a) ==
    (IF a.truncate THEN <<"truncate_sims_to_shortest">>
     ELSE IF a.extend THEN <<"extend_sims">>
     ELSE <<>>)
    \o (IF a.elapsed THEN <<"normalize_sims_vs_elapsed">> ELSE <<>>)
    \o (IF a.relative
        THEN <<"normalize_sims_vs_baseline">>
             \o (IF a.roi THEN <<"normalize_sims_vs_stone_cost">>
                 ELSE <<"annotate_sims_vs_stone_cost">>)
        ELSE <<"annotate_sims_vs_baseline", "annotate_sims_vs_stone_cost">>)
    \o (IF a.difference THEN <<"difference_sims_vs_baseline">> ELSE <<>>)

\* sims[0].name, or "baseline" which subcommand_compare gives sims[0].
BaselineSimName == baseline_name

\* The call normalize_sims(args, list(evaluate_sims(sims)), name).
NormalizeSims ==
    /\ pending = <<"normalize_sims">>
    /\ raised = None
    /\ Len(sim_results) = Len(sims)
    /\ \E a \in Args :
           /\ args' = a
           /\ pending' = Stages(a)
    /\ UNCHANGED <<sims, iteration, confidence_table, heap, runs, solo,
                   sim_results, estimator,
                   baseline_name, raised, shard_call>>

\* sim_results = list(stage(sim_results)) for the stage normalize_sims is at.
ApplyStage(stage) ==
    /\ pending # <<>>
    /\ Head(pending) = stage
    /\ raised = None
    /\ raised' = Raises(stage, heap, sim_results, BaselineSimName)
    /\ IF Raises(stage, heap, sim_results, BaselineSimName) # None
       THEN /\ pending' = <<>>
            /\ UNCHANGED <<heap, sim_results>>
       ELSE /\ pending' = Tail(pending)
            /\ \E applied \in {ForEachSim(stage, heap, sim_results, 1,
                                          BaselineSimName, <<>>)} :
                   /\ heap' = applied.heap
                   /\ sim_results' = applied.sim_results
    /\ UNCHANGED <<sims, iteration, confidence_table, runs, solo, args,
                   estimator, baseline_name, shard_call>>

TruncateSimsToShortest == ApplyStage("truncate_sims_to_shortest")

ExtendSims == ApplyStage("extend_sims")

NormalizeSimsVsElapsed == ApplyStage("normalize_sims_vs_elapsed")

NormalizeSimsVsBaseline == ApplyStage("normalize_sims_vs_baseline")

NormalizeSimsVsStoneCost == ApplyStage("normalize_sims_vs_stone_cost")

AnnotateSimsVsBaseline == ApplyStage("annotate_sims_vs_baseline")

AnnotateSimsVsStoneCost == ApplyStage("annotate_sims_vs_stone_cost")

DifferenceSimsVsBaseline == ApplyStage("difference_sims_vs_baseline")

TableKeys ==
    {EstimatorKey(sim, order) : sim \in Scenarios, order \in DOMAIN Orders}

InitTable ==
    confidence_table =
        [key \in TableKeys |->
            active_perks_confidence_sequence(key.settings, Orders[key.iteration])]

\* The dict objects reachable from a scenario.
DictsOf(sim) == {sim.free_upgrade_chances, sim.enemy_level_skip_chances}

Restrict(h, ids) == [id \in ids |-> h[id]]

\* The state before main() evaluates the batch and passes the name to
\* normalize_sims.
InitCall(batch, orders, alone_orders, name) ==
    /\ sims = batch
    /\ iteration = orders
    /\ heap = WorkshopDicts
    /\ runs = [r \in DOMAIN batch |-> NewRun]
    /\ solo = [r \in DOMAIN batch |->
                  [heap |-> Restrict(WorkshopDicts, DictsOf(batch[r])),
                   iteration |-> alone_orders[r],
                   run |-> NewRun]]
    /\ sim_results = <<>>
    /\ args = DefaultArgs
    /\ pending = <<"normalize_sims">>
    /\ estimator = None
    /\ baseline_name = name
    /\ raised = None
    /\ shard_call = None

\* A batch as the subcommands build it: the name passed on is the name of
\* its first scenario.
InitBatch(batch, orders, alone_orders) ==
    InitCall(batch, orders, alone_orders, batch[1].name)

\* One scenario, invoked twice: in processes with any two set orders.
Init ==
    /\ InitTable
    /\ \E sim \in Scenarios, order \in DOMAIN Orders, again \in DOMAIN Orders :
           InitBatch(<<sim>>, <<order>>, <<again>>)

Next ==
    \/ \E r \in DOMAIN sims : Start(r)
    \/ \E r \in DOMAIN sims : IntroWave(r)
    \/ \E r \in DOMAIN sims : TransitionWave(r)
    \/ \E r \in DOMAIN sims : RegularWave(r)
    \/ \E r \in DOMAIN sims : Finish(r)

Spec == Init /\ [][Next]_vars

\* A batch of two scenarios built from one base config by
\* dataclasses.replace, so that both hold the same dict objects.
Batch == <<MasteredSimulation, PerkedSimulation>>

InitBatches ==
    /\ InitTable
    /\ InitBatch(Batch, <<2, 2>>, <<1, 1>>)

\* The generators of a batch advanced in any interleaving.
SpecBatch == InitBatches /\ [][Next]_vars

\* The batch of subcommand_compare: the config as the baseline, then in
\* the order of MASTERY_DISPLAY_NAMES an omitted mastery and the config
\* with one mastery at a level.
CompareBatch ==
    <<[PerkedSimulation EXCEPT !.name = "baseline"],
      [PerkedSimulation EXCEPT
          !.mastery = "cash", !.level = 5, !.skip = TRUE,
          !.name = "cash: level 5", !.cash = 5],
      [PerkedSimulation EXCEPT
          !.mastery = "wave-skip", !.level = 5,
          !.name = "wave-skip: level 5", !.wave_skip = 5]>>

InitCompare ==
    /\ InitTable
    /\ InitBatch(CompareBatch, <<1, 1, 1>>, <<1, 1, 1>>)

\* main(): evaluate_sims runs the scenarios one after the other, then
\* normalize_sims applies its stages.
NextNormalize ==
    \/ \E r \in DOMAIN sims : Evaluating(r) /\ Start(r)
    \/ \E r \in DOMAIN sims : Evaluating(r) /\ IntroWave(r)
    \/ \E r \in DOMAIN sims : Evaluating(r) /\ TransitionWave(r)
    \/ \E r \in DOMAIN sims : Evaluating(r) /\ RegularWave(r)
    \/ \E r \in DOMAIN sims : Evaluating(r) /\ Finish(r)
    \/ \E r \in DOMAIN sims : EvaluateSim(r)
    \/ NormalizeSims
    \/ TruncateSimsToShortest
    \/ ExtendSims
    \/ NormalizeSimsVsElapsed
    \/ NormalizeSimsVsBaseline
    \/ NormalizeSimsVsStoneCost
    \/ AnnotateSimsVsBaseline
    \/ AnnotateSimsVsStoneCost
    \/ DifferenceSimsVsBaseline

SpecNormalize == InitCompare /\ [][NextNormalize]_vars

\* A batch of subcommand_compare whose runs end at the same elapsed time:
\* the coin mastery changes the rewards of a wave and not its duration.
EqualBatch ==
    <<[PerkedSimulation EXCEPT !.name = "baseline"],
      [PerkedSimulation EXCEPT
          !.mastery = "coin", !.level = 5,
          !.name = "coin: level 5", !.coin = 5],
      [PerkedSimulation EXCEPT
          !.mastery = "wave-skip", !.level = 5, !.skip = TRUE,
          !.name = "wave-skip: level 5", !.wave_skip = 5]>>

InitEqual ==
    /\ InitTable
    /\ InitBatch(EqualBatch, <<1, 1, 1>>, <<1, 1, 1>>)

SpecEqual == InitEqual /\ [][NextNormalize]_vars

\* A batch of subcommand_compare with a run that lasts much longer than the
\* baseline: the intro sprint mastery has the intro phase run to wave 180.
SprintBatch ==
    <<[PerkedSimulation EXCEPT !.name = "baseline"],
      [PerkedSimulation EXCEPT
          !.mastery = "intro-sprint", !.level = 0,
          !.name = "intro-sprint: level 0", !.intro_sprint = 0]>>

InitSprint ==
    /\ InitTable
    /\ InitBatch(SprintBatch, <<1, 1>>, <<1, 1>>)

SpecSprint == InitSprint /\ [][NextNormalize]_vars

\* A batch of subcommand_compare at the level the config already has: the
\* coin mastery scenario differs from the baseline in its name, mastery
\* and level only.  At tier 18 elites spawn from wave 33, inside the
\* intro phase.
TwinBatch ==
    <<[MasteredSimulation EXCEPT !.name = "baseline"],
      [MasteredSimulation EXCEPT
          !.mastery = "coin", !.level = 0,
          !.name = "coin: level 0", !.coin = 0]>>

InitTwin ==
    /\ InitTable
    /\ InitBatch(TwinBatch, <<1, 1>>, <<1, 1>>)

SpecTwin == InitTwin /\ [][NextNormalize]_vars

\* Calls of normalize_sims as they are and as they can go wrong: the
\* baseline scenario evaluated or omitted, and the name passed on the name
\* of the baseline or one that no scenario of the batch has.
LostBatch(skip) ==
    <<[PerkedSimulation EXCEPT !.name = "baseline", !.skip = skip],
      [PerkedSimulation EXCEPT
          !.mastery = "coin", !.level = 5,
          !.name = "coin: level 5", !.coin = 5]>>

InitLost ==
    /\ InitTable
    /\ \E skip \in BOOLEAN, name \in {"baseline", "perked"} :
           InitCall(LostBatch(skip), <<1, 1>>, <<1, 1>>, name)

SpecLost == InitLost /\ [][NextNormalize]_vars

\* A batch of subcommand_compare whose config selects a reward: one of
\* the four names, or a value that reward_value does not know.
RewardBatch(reward) ==
    <<[PerkedSimulation EXCEPT !.name = "baseline", !.reward = reward],
      [PerkedSimulation EXCEPT
          !.mastery = "coin", !.level = 5,
          !.name = "coin: level 5", !.coin = 5, !.reward = reward]>>

InitReward ==
    /\ InitTable
    /\ \E reward \in {"cells", "gems"} :
           InitBatch(RewardBatch(reward), <<1, 1>>, <<1, 1>>)

SpecReward == InitReward /\ [][NextNormalize]_vars

\* ---------------------------------------------------------------------
\* fleet_shard_reward on its own
\* ---------------------------------------------------------------------

\* Waves around the first thresholds of the table, around two later ones,
\* and past the last.
ShardWaves == (1..260) \cup (498..502) \cup (4998..5002) \cup {6000}

InitShard ==
    /\ InitTable
    /\ InitBatch(<<DefaultSimulation>>, <<1>>, <<1>>)

\* fleet_shard_reward(sim, wave)
FleetShardReward ==
    /\ \E wave \in ShardWaves :
           shard_call' = Some([wave |-> wave,
                               reward |-> fleet_shard_reward(sims[1], wave)])
    /\ UNCHANGED <<sims, iteration, confidence_table, heap, runs, solo,
                   sim_results, args, pending, estimator, baseline_name,
                   raised>>

NextShard == FleetShardReward

SpecShard == InitShard /\ [][NextShard]_vars

\* ---------------------------------------------------------------------
\* The estimator on its own: the generator active_perks_confidence_sequence
\* consumed one confidence at a time, then PerkWaveEstimator.average
\* queried on the finished list
\* ---------------------------------------------------------------------

\* ---------------------------------------------------------------------
\* PerkWaveEstimator.estimate on its own, one pass of its while loop at a
\* time
\* ---------------------------------------------------------------------

\* Configs that differ in the fields perk_count_at_wave reads.
EstimateScenarios ==
    {DefaultSimulation,
     [DefaultSimulation EXCEPT !.standard_perk_bonus_lab = 0,
                               !.perk_waves_required_lab = 0],
     [DefaultSimulation EXCEPT !.perk_waves_required_lab = 150]}

\* The waves estimate is called for: inside each band of
\* perk_count_at_wave, at the band ends and beyond the last band.
EstimateWaves ==
    {1, 2, 49, 75, 100, 175, 500, 1000, 2000, 3000, 3500, 5000, 6000, 9000,
     12000}

\* The perk counts whose perks come in as the state of the wave before.
IncomingCounts == {0, 500, Fix(1), Fix(5), Fix(20), Fix(49), Fix(50)}

\* The passes of the while loop a call may make.
MaxPasses == 16

\* The confidences of the estimator of the scenario.
EstimatorConfidences == Confidences(sims[1], iteration[1])

\* sum(perks.perks.values())
PerkTotal(perks) == SumSeq([i \in DOMAIN ALL_PERKS |-> perks[ALL_PERKS[i][1]]])

\* estimate(sim, wave, perks) up to the first test of the loop.
CallEstimate ==
    /\ estimator = None
    /\ \E wave \in EstimateWaves, count \in IncomingCounts :
       \E perks \in {IF count = 0 THEN perks_default_factory
                     ELSE reduce(average(EstimatorConfidences, count))} :
           estimator' =
               Some([wave |-> wave,
                     incoming |-> perks,
                     perks |-> perks,
                     perk_count |-> PerkTotal(perks),
                     next_perk_count |-> perk_count_at_wave(sims[1], perks, wave),
                     passes |-> 0,
                     returned |-> FALSE])
    /\ UNCHANGED <<sims, iteration, confidence_table, heap, runs, solo,
                   sim_results, args, pending, baseline_name, raised,
                   shard_call>>

\* One pass of the body of the while loop.
LoopPass ==
    /\ estimator # None
    /\ ~estimator[1].returned
    /\ estimator[1].perk_count < estimator[1].next_perk_count
    /\ estimator[1].passes < MaxPasses
    /\ \E perks \in {reduce(average(EstimatorConfidences,
                                    estimator[1].next_perk_count))} :
           estimator' =
               Some([estimator[1] EXCEPT
                   !.perk_count = estimator[1].next_perk_count,
                   !.perks = perks,
                   !.next_perk_count =
                       perk_count_at_wave(sims[1], perks, estimator[1].wave),
                   !.passes = @ + 1])
    /\ UNCHANGED <<sims, iteration, confidence_table, heap, runs, solo,
                   sim_results, args, pending, baseline_name, raised,
                   shard_call>>

\* The loop test fails and estimate returns perks.
ReturnPerks ==
    /\ estimator # None
    /\ ~estimator[1].returned
    /\ ~(estimator[1].perk_count < estimator[1].next_perk_count)
    /\ estimator' = Some([estimator[1] EXCEPT !.returned = TRUE])
    /\ UNCHANGED <<sims, iteration, confidence_table, heap, runs, solo,
                   sim_results, args, pending, baseline_name, raised,
                   shard_call>>

InitEstimate ==
    \E sim \in EstimateScenarios :
        /\ InitBatch(<<sim>>, <<1>>, <<1>>)
        /\ confidence_table =
               [key \in {EstimatorKey(sim, 1)} |->
                   active_perks_confidence_sequence(key.settings, Orders[1])]

NextEstimate ==
    \/ CallEstimate
    \/ LoopPass
    \/ ReturnPerks

SpecEstimate == InitEstimate /\ [][NextEstimate]_vars

\* Configs that differ in the fields the estimator reads.
PerkScenarios ==
    {DefaultSimulation,
     [DefaultSimulation EXCEPT !.perk_option_quantity_lab = 0],
     [DefaultSimulation EXCEPT !.perk_option_quantity_lab = 4],
     [DefaultSimulation EXCEPT !.first_perk_choice = "uw-gt"],
     [DefaultSimulation EXCEPT !.first_perk_choice = "to-tower-damage"],
     [DefaultSimulation EXCEPT
         !.perk_priority_order = Reverse(PERK_PRIORITY_ORDER)]}

\* The list built so far from the generator of the r-th scenario.
Yielded(r) == confidence_table[EstimatorKey(sims[r], iteration[r])]

\* The generator has run to its end.
Exhausted(r) == Len(Yielded(r)) = TotalPerkQuantity + 1

\* One pass of the generator's loop: the confidence after the next perk
\* event is computed from the last one and yielded.
YieldConfidence(r) ==
    /\ ~Exhausted(r)
    /\ \E key \in {EstimatorKey(sims[r], iteration[r])} :
       \E confidence \in {Yielded(r)[Len(Yielded(r))]} :
           confidence_table' =
               [confidence_table EXCEPT
                   ![key] = Append(@, active_perks_confidence(
                                          key.settings, confidence,
                                          Orders[key.iteration]))]
    /\ UNCHANGED <<sims, iteration, heap, runs, solo, sim_results, args,
                   pending, estimator,
                   baseline_name, raised, shard_call>>

\* The perk counts queried: whole and fractional, at both ends of the list
\* and inside it.
PerkCounts ==
    {Fix(n) + fraction :
        n \in {0, 1, 2, 3, 20, 49, TotalPerkQuantity - 1},
        fraction \in {0, 250, 500}}

\* PerkWaveEstimator(confidences=list(...)).average(perk_count)
Average(r) ==
    /\ Exhausted(r)
    /\ \E perk_count \in PerkCounts :
           estimator' = Some([perk_count |-> perk_count,
                              average |-> average(Yielded(r), perk_count)])
    /\ UNCHANGED <<sims, iteration, confidence_table, heap, runs, solo,
                   sim_results, args, pending, baseline_name, raised,
                   shard_call>>

InitEstimator ==
    \E sim \in PerkScenarios, order \in DOMAIN Orders :
        /\ InitBatch(<<sim>>, <<order>>, <<order>>)
        /\ confidence_table =
               [key \in {EstimatorKey(sim, order)} |-> <<NewPerksConfidence>>]

NextEstimator ==
    \/ \E r \in DOMAIN sims : YieldConfidence(r)
    \/ \E r \in DOMAIN sims : Average(r)

SpecEstimator == InitEstimator /\ [][NextEstimator]_vars

\* ---------------------------------------------------------------------
\* Observations on the snapshot sequence of a run
\* ---------------------------------------------------------------------

\* The snapshots run r has yielded so far, as records.
WaveResults(r) ==
    [i \in DOMAIN runs[r].wave_results |-> heap[runs[r].wave_results[i]]]

\* The value of an Events object, its dict included.
EventsValue(h, events) ==
    [h[events] EXCEPT !.enemy_level_skips = h[@]]

\* Everything a snapshot holds, by value.
SnapshotValue(h, snapshot) ==
    [wave |-> h[snapshot].wave,
     elapsed_time |-> h[snapshot].elapsed_time,
     cumulative_events |-> EventsValue(h, h[snapshot].cumulative_events),
     cumulative_rewards |-> h[h[snapshot].cumulative_rewards]]

ZeroEvents == [NewEvents(0) EXCEPT !.enemy_level_skips = enemy_level_skip_default_factory]

K(r) == max_intro_wave(sims[r])

Unskipped(wave) == wave = 1 \/ wave % 10 = 0

\* Pairs of successive snapshots of run r: position i holds wave i - 1.
Successive(r) == {i \in DOMAIN runs[r].wave_results : i > 1}

\* ---------------------------------------------------------------------
\* C1
\* ---------------------------------------------------------------------

\* C1: no snapshot of any run has a wave index above the scenario's
\* max_waves; with max_waves = 0 the run is the single wave-0 snapshot
\* with elapsed_time 0 and all four Rewards fields 0.
C1_WavesCappedByMaxWaves ==
    \A r \in DOMAIN sims :
        /\ \A i \in DOMAIN runs[r].wave_results :
               WaveResults(r)[i].wave <= sims[r].max_waves
        /\ sims[r].max_waves = 0 => Len(runs[r].wave_results) <= 1

\* ---------------------------------------------------------------------
\* C2
\* ---------------------------------------------------------------------

\* C2 as stated: from one snapshot to the next both the wave index and the
\* elapsed time strictly increase.
C2_StrictlyIncreasing ==
    \A r \in DOMAIN sims : \A i \in Successive(r) :
        /\ WaveResults(r)[i].wave > WaveResults(r)[i - 1].wave
        /\ WaveResults(r)[i].elapsed_time > WaveResults(r)[i - 1].elapsed_time

\* C2 amended: the wave index strictly increases and the elapsed time never
\* decreases; it strictly increases on wave 1, on intro waves that are
\* multiples of 10, on the transition wave and on every regular wave, and
\* stays the same on every other (fully skipped) intro wave.
C2_ElapsedAdvancesOnUnskippedWaves ==
    \A r \in DOMAIN sims : \A i \in Successive(r) :
        LET this == WaveResults(r)[i]
            last == WaveResults(r)[i - 1]
        IN  /\ this.wave > last.wave
            /\ this.elapsed_time >= last.elapsed_time
            /\ (this.wave >= K(r) \/ Unskipped(this.wave))
                   => this.elapsed_time > last.elapsed_time
            /\ (this.wave < K(r) /\ ~Unskipped(this.wave))
                   => this.elapsed_time = last.elapsed_time

\* A run has passed skipped intro waves, unskipped ones and a regular wave.
C2_Witness ==
    \E r \in DOMAIN sims :
        /\ Len(runs[r].wave_results) > K(r) + 2
        /\ WaveResults(r)[4].elapsed_time = WaveResults(r)[3].elapsed_time
        /\ WaveResults(r)[K(r) + 2].elapsed_time > WaveResults(r)[K(r) + 1].elapsed_time

\* ---------------------------------------------------------------------
\* C3
\* ---------------------------------------------------------------------

\* Field-by-field sum of an Events value and one wave's Events.
EventsSum(cumulative, events, skips) ==
    [wave |-> cumulative.wave,
     wave_skip |-> cumulative.wave_skip + events.wave_skip,
     free_upgrades |->
         [key \in DOMAIN cumulative.free_upgrades |->
             cumulative.free_upgrades[key]
               + (IF key \in DOMAIN events.free_upgrades
                  THEN events.free_upgrades[key] ELSE 0)],
     recovery_packages |-> cumulative.recovery_packages + events.recovery_packages,
     enemy_level_skips |->
         [key \in DOMAIN cumulative.enemy_level_skips |->
             cumulative.enemy_level_skips[key]
               + (IF key \in DOMAIN skips THEN skips[key] ELSE 0)],
     enemies |-> [key \in EnemyNames |->
                     cumulative.enemies[key] + events.enemies[key]]]

\* C3: the sequence starts with wave 0 at elapsed time 0 with all-zero
\* cumulative Events and Rewards; the snapshot at position i is wave i - 1;
\* and the latest snapshot is its predecessor plus the Events and Rewards
\* of the wave just simulated.
C3_WaveZeroThenOnePerWave ==
    \A r \in DOMAIN sims :
        /\ runs[r].pc # "start" =>
               /\ Len(runs[r].wave_results) = runs[r].wave
               /\ SnapshotValue(heap, runs[r].wave_results[1]) =
                      [wave |-> 0, elapsed_time |-> 0,
                       cumulative_events |-> ZeroEvents,
                       cumulative_rewards |-> NewRewards]
        /\ \A i \in Successive(r) :
               WaveResults(r)[i].wave = WaveResults(r)[i - 1].wave + 1
        /\ Len(runs[r].wave_results) > 1 =>
               LET n == Len(runs[r].wave_results)
                   this == SnapshotValue(heap, runs[r].wave_results[n])
                   last == SnapshotValue(heap, runs[r].wave_results[n - 1])
               IN  /\ this.cumulative_events =
                          EventsSum(last.cumulative_events, runs[r].previous_events,
                                    heap[runs[r].previous_events.enemy_level_skips])
                   /\ this.cumulative_rewards =
                          [f \in RewardFields |->
                              last.cumulative_rewards[f] + runs[r].previous_rewards[f]]

\* A run has simulated waves that changed both cumulative records.
C3_Witness ==
    \E r \in DOMAIN sims :
        /\ Len(runs[r].wave_results) > K(r) + 1
        /\ heap[runs[r].cumulative_rewards].coins > 0
        /\ heap[heap[runs[r].cumulative_events].enemy_level_skips]["attack"] > 0
\* ---------------------------------------------------------------------
\* C4
\* ---------------------------------------------------------------------

PhaseRank(pc) ==
    CASE pc = "start" -> 0
      [] pc = "intro" -> 1
      [] pc = "transition" -> 2
      [] pc = "regular" -> 3
      [] OTHER -> 4

\* Run r simulates wave in this step.
Simulates(r, wave) == runs[r].wave = wave /\ runs'[r].wave = wave + 1 /\ wave > 0

\* The rewards the Reward Calculator gives for the wave run r simulates
\* in this step.
CalculatedRewards(r) ==
    calculate_rewards(sims[r], runs'[r].perks, runs'[r].previous_events,
                      runs[r].previous_events, runs[r].previous_rewards)

\* The positions of the generator: intro at waves 1..K-1, transition at K,
\* regular beyond K.
C4_PhasePositions ==
    \A r \in DOMAIN sims :
        /\ runs[r].pc = "intro" => 1 <= runs[r].wave /\ runs[r].wave < K(r)
        /\ runs[r].pc = "transition" => runs[r].wave = K(r)
        /\ runs[r].pc \in {"regular", "done"} => runs[r].wave > K(r)

\* What a step does to the wave it simulates: intro treatment below K,
\* transition treatment at K, regular treatment above K and up to max_waves.
C4_PhaseSteps ==
    \A r \in DOMAIN sims :
        /\ PhaseRank(runs'[r].pc) >= PhaseRank(runs[r].pc)
        /\ \A wave \in 1..(K(r) + ExtraWaves + 1) :
               Simulates(r, wave) =>
                   LET events == runs'[r].previous_events
                       rewards == runs'[r].previous_rewards
                       advance == runs'[r].elapsed_time - runs[r].elapsed_time
                       speed == Mul(GAME_SPEED,
                                    game_speed_factor(runs'[r].perks, sims[r]))
                   IN  /\ events.wave = wave
                       /\ wave < K(r) =>
                              /\ runs[r].pc = "intro"
                              /\ events.wave_skip \in {0, Fix(1)}
                       /\ wave = K(r) =>
                              /\ runs[r].pc = "transition"
                              /\ events.wave_skip = 0
                              /\ rewards = CalculatedRewards(r)
                              /\ advance = Div(WAVE_DURATION + WAVE_COOLDOWN, speed)
                       /\ wave > K(r) =>
                              /\ runs[r].pc = "regular"
                              /\ wave <= sims[r].max_waves
                              /\ events.wave_skip = wave_skip_chance_of(sims[r])
                              /\ rewards = CalculatedRewards(r)
                              /\ advance =
                                     Div(Mul(WAVE_DURATION + WAVE_COOLDOWN,
                                             Fix(1) - events.wave_skip), speed)

\* C4: a run goes through the intro waves 1..K-1, then the one transition
\* wave K, then the regular waves K+1..max_waves, never back; the
\* transition wave has skip probability 0, the rewards the Reward
\* Calculator gives, and an elapsed time advance of
\* (WAVE_DURATION + WAVE_COOLDOWN) / effective game speed.
C4_ThreePhasesInOrder == []C4_PhasePositions /\ [][C4_PhaseSteps]_vars

\* A run has gone through the three phases and returned, with a skip
\* chance the transition wave had to override.
C4_Witness ==
    \E r \in DOMAIN sims :
        /\ runs[r].pc = "done"
        /\ Len(runs[r].wave_results) = K(r) + ExtraWaves + 1
        /\ wave_skip_chance_of(sims[r]) > 0
        /\ WaveResults(r)[K(r) + 1].cumulative_rewards # WaveResults(r)[K(r)].cumulative_rewards

\* ---------------------------------------------------------------------
\* C5
\* ---------------------------------------------------------------------

\* What snapshot i of run r added to the field of its predecessor.
EventsAdded(r, i, field) ==
    heap[WaveResults(r)[i].cumulative_events][field]
      - heap[WaveResults(r)[i - 1].cumulative_events][field]

RewardsAdded(r, i, field) ==
    heap[WaveResults(r)[i].cumulative_rewards][field]
      - heap[WaveResults(r)[i - 1].cumulative_rewards][field]

ElapsedAdded(r, i) ==
    WaveResults(r)[i].elapsed_time - WaveResults(r)[i - 1].elapsed_time

BossesAdded(r, i) ==
    heap[WaveResults(r)[i].cumulative_events].enemies["boss"]
      - heap[WaveResults(r)[i - 1].cumulative_events].enemies["boss"]

\* C5: an intro wave w adds wave_skip 0 and one boss when w = 1 or w is a
\* multiple of 10, and wave_skip 1 and no boss otherwise, whatever the
\* tier's boss period; after wave 1 the cumulative boss count is 1 and the
\* cumulative wave_skip 0; elapsed time advances on exactly those waves.
C5_IntroSkipsAndBosses ==
    \A r \in DOMAIN sims : \A i \in Successive(r) :
        LET wave == WaveResults(r)[i].wave
        IN  wave < K(r) =>
                /\ Unskipped(wave) =>
                       /\ EventsAdded(r, i, "wave_skip") = 0
                       /\ BossesAdded(r, i) = Fix(1)
                       /\ ElapsedAdded(r, i) > 0
                /\ ~Unskipped(wave) =>
                       /\ EventsAdded(r, i, "wave_skip") = Fix(1)
                       /\ BossesAdded(r, i) = 0
                       /\ ElapsedAdded(r, i) = 0
                /\ wave = 1 =>
                       /\ heap[WaveResults(r)[i].cumulative_events].wave_skip = 0
                       /\ heap[WaveResults(r)[i].cumulative_events].enemies["boss"]
                              = Fix(1)

\* A run of a tier whose boss period is not 10 has passed a wave its
\* period makes a boss wave and a wave that is a multiple of 10.
C5_Witness ==
    \E r \in DOMAIN sims :
        /\ TIER_BOSS_PERIOD[sims[r].tier] = 9
        /\ Len(runs[r].wave_results) > 11
        /\ BossesAdded(r, 10) = 0
        /\ BossesAdded(r, 11) = Fix(1)

\* ---------------------------------------------------------------------
\* C6
\* ---------------------------------------------------------------------

\* Snapshots below wave K hold no coins, reroll shards or module shards.
C6_NoIntroCoins ==
    \A r \in DOMAIN sims : \A i \in DOMAIN runs[r].wave_results :
        WaveResults(r)[i].wave < K(r) =>
            LET rewards == heap[WaveResults(r)[i].cumulative_rewards]
            IN  /\ rewards.coins = 0
                /\ rewards.reroll_shards = 0
                /\ rewards.module_shards = 0

\* An intro wave adds 20% of the elite cells calculate_cells gives for it.
C6_IntroCellsStep ==
    \A r \in DOMAIN sims : \A wave \in 1..(K(r) - 1) :
        Simulates(r, wave) =>
            heap'[runs[r].cumulative_rewards].elite_cells
              - heap[runs[r].cumulative_rewards].elite_cells
            = Mul(calculate_cells(sims[r], runs'[r].previous_events,
                                  runs[r].previous_rewards), 200)

\* C6: at every snapshot below wave K the cumulative coins, reroll shards
\* and module shards are 0, and each intro wave adds exactly 20% of the
\* elite cells the Reward Calculator computes for it; the transition wave
\* K is the first that can add coins, reroll shards or module shards.
C6_IntroRewardsDegraded == []C6_NoIntroCoins /\ [][C6_IntroCellsStep]_vars

\* A run has earned elite cells during the intro and coins on wave K.
C6_Witness ==
    \E r \in DOMAIN sims :
        /\ Len(runs[r].wave_results) > K(r)
        /\ heap[WaveResults(r)[K(r)].cumulative_rewards].elite_cells > 0
        /\ heap[WaveResults(r)[K(r)].cumulative_rewards].coins = 0
        /\ heap[WaveResults(r)[K(r) + 1].cumulative_rewards].coins > 0

\* ---------------------------------------------------------------------
\* C7
\* ---------------------------------------------------------------------

\* Every field of the second Events value is at least that of the first.
EventsLeq(first, second) ==
    /\ first.wave_skip <= second.wave_skip
    /\ first.recovery_packages <= second.recovery_packages
    /\ \A key \in DOMAIN first.free_upgrades :
           first.free_upgrades[key] <= second.free_upgrades[key]
    /\ \A key \in DOMAIN first.enemy_level_skips :
           first.enemy_level_skips[key] <= second.enemy_level_skips[key]
    /\ \A key \in DOMAIN first.enemies :
           first.enemies[key] <= second.enemies[key]

\* C7: from one snapshot to the next in the regular phase no field of the
\* cumulative Events or of the cumulative Rewards decreases, and the
\* rewards of each regular wave are non-negative.
C7_RegularPhaseNonDecreasing ==
    \A r \in DOMAIN sims :
        /\ \A i \in Successive(r) :
               WaveResults(r)[i].wave > K(r) =>
                   LET this == SnapshotValue(heap, runs[r].wave_results[i])
                       last == SnapshotValue(heap, runs[r].wave_results[i - 1])
                   IN  /\ EventsLeq(last.cumulative_events, this.cumulative_events)
                       /\ \A f \in RewardFields :
                              last.cumulative_rewards[f] <= this.cumulative_rewards[f]
        /\ runs[r].wave > K(r) + 1 =>
               \A f \in RewardFields : runs[r].previous_rewards[f] >= 0

\* A run has simulated regular waves that added coins, cells, module
\* shards, wave skips and level skips.
C7_Witness ==
    \E r \in DOMAIN sims :
        /\ Len(runs[r].wave_results) = K(r) + ExtraWaves + 1
        /\ RewardsAdded(r, K(r) + 2, "coins") > 0
        /\ RewardsAdded(r, K(r) + 2, "elite_cells") > 0
        /\ RewardsAdded(r, K(r) + 2, "module_shards") > 0
        /\ EventsAdded(r, K(r) + 2, "wave_skip") > 0
        /\ heap[heap[WaveResults(r)[K(r) + 2].cumulative_events].enemy_level_skips]["attack"]
             > heap[heap[WaveResults(r)[K(r) + 1].cumulative_events].enemy_level_skips]["attack"]
\* ---------------------------------------------------------------------
\* C8
\* ---------------------------------------------------------------------

\* The snapshots the second invocation for scenario r has yielded.
AloneResults(r) == solo[r].run.wave_results

\* The two invocations for scenario r have yielded equal snapshots, by
\* value, and after the same steps are at the same position.
SameAsAlone(r) ==
    /\ Len(runs[r].wave_results) = Len(AloneResults(r))
    /\ runs[r].pc = solo[r].run.pc
    /\ \A i \in DOMAIN runs[r].wave_results :
           SnapshotValue(heap, runs[r].wave_results[i])
             = SnapshotValue(solo[r].heap, AloneResults(r)[i])

\* C8: two invocations of simulate_run with equal Simulation configs yield
\* equal snapshot sequences (equal length, and equal wave, elapsed_time,
\* cumulative Events and cumulative Rewards at every position), whatever
\* order each iterates the set of lower-priority perks in.
C8_Deterministic == \A r \in DOMAIN sims : SameAsAlone(r)

\* Two invocations with different iteration orders have returned, with
\* perks whose selection went through priority resolution.
C8_Witness ==
    \E r \in DOMAIN sims :
        /\ Orders[iteration[r]] # Orders[solo[r].iteration]
        /\ runs[r].pc = "done"
        /\ solo[r].run.pc = "done"
        /\ runs[r].perks["std-game-speed"] > 0
        /\ runs[r].perks["std-freeup-chance"] > 0

\* ---------------------------------------------------------------------
\* C9
\* ---------------------------------------------------------------------

\* The dicts held by the Simulation configs are as they were built.
ConfigsIntact == \A dict \in DOMAIN WorkshopDicts : heap[dict] = WorkshopDicts[dict]

\* The snapshots run r has yielded in the batch are those of the
\* invocation that runs alone.
IsolatedRun(r) ==
    /\ runs[r].wave_results = AloneResults(r)
    /\ \A id \in DOMAIN solo[r].heap :
           id \notin DictsOf(sims[r]) => heap[id] = solo[r].heap[id]

\* C9: however the runs of a batch are interleaved, each yields the
\* snapshots it yields when run alone, and no run changes a Simulation
\* config or a dict a config holds.
C9_RunsIndependent ==
    /\ [](ConfigsIntact /\ \A r \in DOMAIN sims : IsolatedRun(r))
    /\ [][sims' = sims]_vars

\* Two different scenarios holding the same non-empty dicts are both in
\* mid-run, at different waves, each having added level skips.
C9_Witness ==
    /\ Len(sims) = 2
    /\ sims[1] # sims[2]
    /\ sims[1].enemy_level_skip_chances = sims[2].enemy_level_skip_chances
    /\ heap[sims[1].enemy_level_skip_chances]["attack"] > 0
    /\ runs[1].pc = "intro" /\ runs[2].pc = "regular"
    /\ runs[1].wave > 10
    /\ heap[CumulativeSkips(1)]["attack"] > 0
    /\ heap[CumulativeSkips(2)]["attack"] > heap[CumulativeSkips(1)]["attack"]

\* ---------------------------------------------------------------------
\* C10
\* ---------------------------------------------------------------------

\* A run result by value: its own fields, its list, and every snapshot in
\* the list by identity and by value.
RunResultValue(h, run_result) ==
    [fields |-> h[run_result],
     wave_results |-> WaveResultsOf(h, run_result),
     snapshots |->
         [i \in DOMAIN WaveResultsOf(h, run_result) |->
             <<h[WaveResultsOf(h, run_result)[i]],
               SnapshotValue(h, WaveResultsOf(h, run_result)[i])>>]]

\* The run results the next stage takes as its input.
InputResults ==
    {sim_results[q].run_result :
        q \in {q \in DOMAIN sim_results : sim_results[q].run_result # NoResult}}

\* A step leaves every snapshot a run has yielded, and every run result
\* of the current batch, as it was.
EmittedUnchanged ==
    /\ \A r \in DOMAIN runs :
           \A i \in DOMAIN runs[r].wave_results :
               /\ heap'[runs[r].wave_results[i]] = heap[runs[r].wave_results[i]]
               /\ SnapshotValue(heap', runs[r].wave_results[i])
                    = SnapshotValue(heap, runs[r].wave_results[i])
    /\ \A run_result \in InputResults :
           RunResultValue(heap', run_result) = RunResultValue(heap, run_result)

\* The step applies the stage.
StageApplied(stage) ==
    /\ pending # <<>>
    /\ Head(pending) = stage
    /\ pending' = Tail(pending)

\* The run results a step has put into sim_results.
OutputResults ==
    {sim_results'[q].run_result :
        q \in {q \in DOMAIN sim_results' : sim_results'[q].run_result # NoResult}}

\* Every run record of the output is a new object.
NewRunRecords == \A run_result \in OutputResults : run_result \notin DOMAIN heap

\* Every snapshot record of the output is a new object.
NewSnapshotRecords ==
    \A run_result \in OutputResults :
        \A snapshot \in Range(WaveResultsOf(heap', run_result)) :
            snapshot \notin DOMAIN heap

\* Every snapshot record of the output is one of the input's.
SameSnapshotRecords ==
    \A run_result \in OutputResults :
        Range(WaveResultsOf(heap', run_result)) \subseteq DOMAIN heap

AllStages ==
    {"truncate_sims_to_shortest", "extend_sims", "normalize_sims_vs_elapsed",
     "normalize_sims_vs_baseline", "normalize_sims_vs_stone_cost",
     "annotate_sims_vs_baseline", "annotate_sims_vs_stone_cost",
     "difference_sims_vs_baseline"}

RebuildingStages ==
    {"extend_sims", "normalize_sims_vs_elapsed", "normalize_sims_vs_baseline",
     "normalize_sims_vs_stone_cost", "difference_sims_vs_baseline"}

\* C10 as stated: once emitted, a snapshot is not changed by the
\* simulation of later waves, and every normalization stage builds new
\* snapshot and run records and leaves the snapshots and run results of
\* its input batch unchanged.
C10_EveryStageBuildsNewRecords ==
    [][/\ EmittedUnchanged
       /\ \A stage \in AllStages :
              StageApplied(stage) => NewRunRecords /\ NewSnapshotRecords]_vars

\* C10, amended: once emitted, a snapshot is not changed by the simulation
\* of later waves, and every normalization stage leaves the snapshots and
\* run results of its input batch unchanged.  extend, elapsed, relative,
\* ROI and difference build new run records of new snapshot records;
\* truncate and annotate-vs-baseline build new run records that hold the
\* snapshot objects of their input; annotate-vs-stone-cost does so for a
\* scenario with a stone cost, and yields the input run record itself for
\* a scenario whose stone cost is 0.
C10_EmittedRecordsUnchanged ==
    [][/\ EmittedUnchanged
       /\ \A stage \in RebuildingStages :
              StageApplied(stage) => NewRunRecords /\ NewSnapshotRecords
       /\ \A stage \in {"truncate_sims_to_shortest", "annotate_sims_vs_baseline"} :
              StageApplied(stage) => NewRunRecords /\ SameSnapshotRecords
       /\ StageApplied("annotate_sims_vs_stone_cost") =>
              /\ SameSnapshotRecords
              /\ \A q \in DOMAIN sim_results :
                     sim_results[q].run_result # NoResult =>
                         (sim_results'[q].run_result = sim_results[q].run_result
                            <=> stone_cost(sim_results[q].sim) = 0)]_vars

\* normalize_sims has returned after extending the shorter run by a
\* snapshot, rescaling by elapsed time and subtracting the baseline.
C10_Witness ==
    /\ pending = <<>>
    /\ args.extend /\ args.elapsed /\ args.difference
    /\ Len(sim_results) = 3
    /\ sim_results[2].run_result = NoResult
    /\ sim_results[3].run_result = RunResultRef("difference_sims_vs_baseline", 3)
    /\ Len(WaveResultsOf(heap, sim_results[3].run_result))
         > Len(runs[3].wave_results)
    /\ runs[1].pc = "done" /\ runs[3].pc = "done"

\* ---------------------------------------------------------------------
\* Observations on the estimator
\* ---------------------------------------------------------------------

\* The confidence the generator yielded last.
LastYielded(r) == Yielded(r)[Len(Yielded(r))]

\* perk_option_set_chances: the options its loop starts from, and the
\* number of passes the loop makes.
ForcedOptions(sim, confidence) ==
    IF confidence.count = 0
    THEN [perk_options_default_factory EXCEPT ![sim.first_perk_choice] = Scale]
    ELSE perk_options_default_factory

LoopSlots(sim, confidence) ==
    IF confidence.count = 0
    THEN perk_option_quantity(sim) - 1
    ELSE perk_option_quantity(sim)

\* The appearance chances the loop adds in its pass number slot.
AppearanceChances(sim, confidence, slot) ==
    perk_option_chances(
        sim,
        OptionSlots(sim, confidence, ForcedOptions(sim, confidence), slot - 1),
        confidence)

\* Every chance the next transition of the r-th scenario is computed from:
\* the forced slot, each pass of the loop, and the selection chances.
ChancesOfNextEvent(r) ==
    LET sim == PerkSettings(sims[r])
        confidence == LastYielded(r)
    IN  {ForcedOptions(sim, confidence),
         SelectionChances(sim, confidence, Orders[iteration[r]])}
        \cup {AppearanceChances(sim, confidence, slot) :
                 slot \in 1..LoopSlots(sim, confidence)}

InUnitInterval(value) == 0 <= value /\ value <= Scale

\* C11: after any number of confidence transitions from the all-zero state,
\* up to the full sequence, every confidence of every perk and slot lies in
\* [0, 1], and so does every appearance chance of every option slot and
\* every selection chance the next transition is computed from.
C11_ConfidenceInUnitInterval ==
    \A r \in DOMAIN sims :
        /\ \A perk \in PerkNames :
           \A i \in DOMAIN LastYielded(r).perks[perk] :
               InUnitInterval(LastYielded(r).perks[perk][i])
        /\ ~Exhausted(r) =>
               \A options \in ChancesOfNextEvent(r) :
               \A perk \in PerkNames : InUnitInterval(options[perk])

\* The full sequence has been produced, with a confidence strictly inside
\* the interval and one next to its upper end.
C11_Witness ==
    \E r \in DOMAIN sims :
        /\ Exhausted(r)
        /\ \E perk \in PerkNames :
           \E i \in DOMAIN LastYielded(r).perks[perk] :
               /\ 0 < LastYielded(r).perks[perk][i]
               /\ LastYielded(r).perks[perk][i] < Scale \div 2
        /\ \E perk \in PerkNames :
               LastYielded(r).perks[perk][1] > Scale - Scale \div 10

\* C12: each confidence transition increments the count of perk events by
\* exactly 1, and no slot of any perk is lower after it than before it.
C12_TransitionCountsAndNeverLowers ==
    [][\A r \in DOMAIN sims :
           Yielded(r)' # Yielded(r) =>
               /\ Len(Yielded(r)') = Len(Yielded(r)) + 1
               /\ LastYielded(r)'.count = LastYielded(r).count + 1
               /\ \A perk \in PerkNames :
                  \A i \in DOMAIN LastYielded(r).perks[perk] :
                      LastYielded(r)'.perks[perk][i]
                          >= LastYielded(r).perks[perk][i]]_vars

\* Transitions have happened, and the last one raised a slot that was
\* already above zero.
C12_Witness ==
    \E r \in DOMAIN sims :
        /\ Len(Yielded(r)) >= 4
        /\ \E perk \in PerkNames :
           \E i \in DOMAIN LastYielded(r).perks[perk] :
               /\ 0 < Yielded(r)[Len(Yielded(r)) - 1].perks[perk][i]
               /\ Yielded(r)[Len(Yielded(r)) - 1].perks[perk][i]
                      < LastYielded(r).perks[perk][i]

\* C13, as stated: in every PerksConfidence state each perk's sequence is
\* non-decreasing along its slot index, slot i <= slot i + 1.
C13_NonDecreasingAlongSlots ==
    \A r \in DOMAIN sims :
    \A perk \in PerkNames :
    \A i \in DOMAIN LastYielded(r).perks[perk] :
        i + 1 \in DOMAIN LastYielded(r).perks[perk] =>
            LastYielded(r).perks[perk][i] <= LastYielded(r).perks[perk][i + 1]

\* C13, amended: in every PerksConfidence state each perk's sequence is
\* non-increasing along its slot index, slot i >= slot i + 1: holding a
\* perk at least i + 1 times is never more likely than holding it at least
\* i times.
C13_NonIncreasingAlongSlots ==
    \A r \in DOMAIN sims :
    \A perk \in PerkNames :
    \A i \in DOMAIN LastYielded(r).perks[perk] :
        i + 1 \in DOMAIN LastYielded(r).perks[perk] =>
            LastYielded(r).perks[perk][i] >= LastYielded(r).perks[perk][i + 1]

\* After several events a perk of quantity above one holds a slot strictly
\* above the next one, which is itself above zero.
C13_Witness ==
    \E r \in DOMAIN sims :
    \E perk \in PerkNames :
    \E i \in DOMAIN LastYielded(r).perks[perk] :
        /\ i + 1 \in DOMAIN LastYielded(r).perks[perk]
        /\ LastYielded(r).count >= 2
        /\ LastYielded(r).perks[perk][i] > LastYielded(r).perks[perk][i + 1]
        /\ LastYielded(r).perks[perk][i + 1] > 0

\* C14: a perk of the configured ban list is never offered: in the forced
\* first slot, in every option slot and in the selection chances of every
\* perk event its chance is 0, and its confidence stays 0 in every slot.
C14_BannedNeverOffered ==
    \A r \in DOMAIN sims :
        /\ \A perk \in Range(sims[r].perk_bans) :
           \A i \in DOMAIN LastYielded(r).perks[perk] :
               LastYielded(r).perks[perk][i] = 0
        /\ ~Exhausted(r) =>
               \A options \in ChancesOfNextEvent(r) :
               \A perk \in Range(sims[r].perk_bans) : options[perk] = 0

\* The confidence after n perk events, out of the finished list.
StateAfter(r, n) == Yielded(r)[n + 1]

\* The linear interpolation between the states after n and n + 1 events,
\* n the whole part of perk_count, by the fractional part of perk_count.
Interpolated(r, perk_count) ==
    LET n == perk_count \div Scale
        remainder == perk_count % Scale
    IN  [perk \in PerkNames |->
            [i \in DOMAIN StateAfter(r, n).perks[perk] |->
                StateAfter(r, n).perks[perk][i]
                    + Mul(StateAfter(r, n + 1).perks[perk][i]
                              - StateAfter(r, n).perks[perk][i],
                          remainder)]]

\* C15: for a perk count c with n <= c < n + 1 the confidences the estimator
\* uses are the linear interpolation by c - n between the state after n
\* perk events and the state after n + 1; at a whole c = n they are the
\* state after n events.
C15_AverageInterpolates ==
    \A r \in DOMAIN sims :
        estimator # None =>
            estimator[1].average.perks = Interpolated(r, estimator[1].perk_count)

\* ---------------------------------------------------------------------
\* Observations on the normalization stages
\* ---------------------------------------------------------------------

\* A step of normalize_sims that has a stage return its list.
StageReturns ==
    /\ pending # <<>>
    /\ Head(pending) \in AllStages
    /\ pending' = Tail(pending)

\* before and after pair the same scenarios in the same order, and hold
\* None at the same positions.
SameShape(before, after) ==
    /\ Len(after) = Len(before)
    /\ \A q \in DOMAIN before :
           /\ after[q].sim = before[q].sim
           /\ (after[q].run_result = NoResult)
                  <=> (before[q].run_result = NoResult)

\* C16: every normalization stage returns a batch of the length and in the
\* scenario order of its input, with None at exactly the positions where
\* the input had None; so does normalize_sims as a whole, for every
\* combination of options.
C16_StagesKeepBatchShape ==
    [][/\ StageReturns => SameShape(sim_results, sim_results')
       /\ pending' # <<"normalize_sims">> =>
              SameShape([q \in DOMAIN sims |->
                            [sim |-> sims[q],
                             run_result |->
                                 IF sims[q].skip THEN NoResult ELSE <<>>]],
                        sim_results')]_vars

\* normalize_sims has returned, with every stage the options can select
\* but one applied, for a batch whose skipped scenario lies between two
\* that ran.
C16_Witness ==
    /\ pending = <<>>
    /\ args.truncate /\ args.elapsed /\ args.relative /\ args.roi
    /\ \E q \in DOMAIN sim_results :
           /\ sim_results[q].run_result = NoResult
           /\ q - 1 \in DOMAIN sim_results
           /\ q + 1 \in DOMAIN sim_results
           /\ sim_results[q - 1].run_result # NoResult
           /\ sim_results[q + 1].run_result # NoResult

\* The run results of the batch as it stands.
RunResults ==
    {sim_results[q].run_result :
        q \in {q \in DOMAIN sim_results : sim_results[q].run_result # NoResult}}

\* The elapsed times of the snapshots of a run result.
TimesOf(run_result) == ElapsedTimes(heap, WaveResultsOf(heap, run_result))

RewardsAt(run_result, i) ==
    heap[heap[WaveResultsOf(heap, run_result)[i]].cumulative_rewards]

\* The times rewards_at_time is asked for: the elapsed time of every
\* snapshot of every run, and the times next to it on either side.
QueryTimes ==
    UNION {UNION {{TimesOf(run_result)[i] - 1, TimesOf(run_result)[i],
                   TimesOf(run_result)[i] + 1} :
                     i \in DOMAIN TimesOf(run_result)} :
              run_result \in RunResults}

\* The rewards between two adjacent snapshots, weighted by the share of
\* the time between them that has passed at elapsed_time.
Between(run_result, below, elapsed_time) ==
    LET times == TimesOf(run_result)
        weight == Div(elapsed_time - times[below],
                      times[below + 1] - times[below])
    IN  [f \in RewardFields |->
            RewardsAt(run_result, below)[f]
                + Mul(RewardsAt(run_result, below + 1)[f]
                          - RewardsAt(run_result, below)[f],
                      weight)]

\* C17: rewards_at_time returns the first snapshot's rewards for a time at
\* or before the first snapshot's elapsed time, the last snapshot's for a
\* time beyond the last one's, and otherwise the linear interpolation
\* between the adjacent snapshots lower and higher that have
\* lower.elapsed_time < t <= higher.elapsed_time, weighted by
\* (t - lower.elapsed_time) / (higher.elapsed_time - lower.elapsed_time).
C17_RewardsAtTime ==
    \A run_result \in RunResults :
    \A t \in QueryTimes :
        LET times == TimesOf(run_result)
            found == rewards_at_time(heap, run_result, t)
        IN  /\ t <= times[1] => found = RewardsAt(run_result, 1)
            /\ t > times[Len(times)] => found = RewardsAt(run_result, Len(times))
            /\ \A below \in 1..(Len(times) - 1) :
                   (times[below] < t /\ t <= times[below + 1]) =>
                       found = Between(run_result, below, t)

\* The stage that subtracts the baseline's rewards at the times of another
\* run has run and left a difference; the times asked for meet all three
\* cases: the time of the baseline's first snapshot, one strictly between
\* two of its snapshots, and one beyond its last snapshot.
C17_Witness ==
    /\ pending = <<>>
    /\ args.difference
    /\ \E base \in RunResults, other \in RunResults :
           /\ base = Baseline(sim_results, BaselineSimName).run_result
           /\ other # base
           /\ TimesOf(other)[1] <= TimesOf(base)[1]
           /\ \E i \in DOMAIN TimesOf(other) :
              \E below \in 1..(Len(TimesOf(base)) - 1) :
                  /\ TimesOf(base)[below] < TimesOf(other)[i]
                  /\ TimesOf(other)[i] < TimesOf(base)[below + 1]
                  /\ RewardsAt(other, i).coins # 0
           /\ \E t \in QueryTimes : t > TimesOf(base)[Len(TimesOf(base))]

\* The snapshot lists a stage was given and has returned for the q-th
\* scenario, and the run result it has returned.
InputWaves(q) == WaveResultsOf(heap, sim_results[q].run_result)

OutputWaves(q) == WaveResultsOf(heap', sim_results'[q].run_result)

OutputResult(q) == heap'[sim_results'[q].run_result]

\* The scenarios of the batch that were not skipped.
Ran == {q \in DOMAIN sim_results : sim_results[q].run_result # NoResult}

\* C18: truncate_sims_to_shortest leaves every run that was not skipped
\* with a non-empty prefix of its snapshots, made of exactly the snapshots
\* whose elapsed time is at most the least final elapsed time of the runs
\* that were not skipped, and sets the run's total to the selected reward
\* of the last snapshot kept.
C18_TruncateKeepsPrefixUpToShortest ==
    [][StageApplied("truncate_sims_to_shortest") =>
           \A q \in Ran :
               /\ OutputWaves(q) # <<>>
               /\ Len(OutputWaves(q)) <= Len(InputWaves(q))
               /\ \A i \in DOMAIN InputWaves(q) :
                      /\ i <= Len(OutputWaves(q)) <=>
                             heap[InputWaves(q)[i]].elapsed_time
                                 <= Min(FinalTimes(heap, sim_results))
                      /\ i <= Len(OutputWaves(q)) =>
                             SnapshotValue(heap', OutputWaves(q)[i])
                                 = SnapshotValue(heap, InputWaves(q)[i])
               /\ OutputResult(q).total =
                      Some(reward_value(
                          sim_results[q].sim,
                          heap[heap[InputWaves(q)[Len(OutputWaves(q))]]
                                   .cumulative_rewards]))]_vars

\* The stage has cut a run short and left the shortest run whole.
C18_Witness ==
    /\ args.truncate
    /\ pending # <<>>
    /\ Head(pending) # "truncate_sims_to_shortest"
    /\ \E q \in DOMAIN sim_results :
           /\ sim_results[q].run_result
                  = RunResultRef("truncate_sims_to_shortest", q)
           /\ Len(WaveResultsOf(heap, sim_results[q].run_result))
                  < Len(runs[q].wave_results)
    /\ \E q \in DOMAIN sim_results :
           /\ sim_results[q].run_result
                  = RunResultRef("truncate_sims_to_shortest", q)
           /\ Len(WaveResultsOf(heap, sim_results[q].run_result))
                  = Len(runs[q].wave_results)

\* The runs that were not skipped all end at the same elapsed time.
EqualFinalTimes == Cardinality(FinalTimes(heap, sim_results)) = 1

\* C19: for a batch whose runs that were not skipped all have the same
\* final elapsed time, truncate_sims_to_shortest and extend_sims both
\* return every run with a snapshot sequence equal to the one it was
\* given, of the same length and with the same snapshots, and with its
\* total unchanged.
C19_EqualTimesLeftAlone ==
    [][(/\ EqualFinalTimes
        /\ \/ StageApplied("truncate_sims_to_shortest")
           \/ StageApplied("extend_sims")) =>
           \A q \in Ran :
               /\ Len(OutputWaves(q)) = Len(InputWaves(q))
               /\ \A i \in DOMAIN InputWaves(q) :
                      SnapshotValue(heap', OutputWaves(q)[i])
                          = SnapshotValue(heap, InputWaves(q)[i])
               /\ OutputResult(q).total
                      = heap[sim_results[q].run_result].total]_vars

\* Both stages have been applied to two runs of equal final elapsed time
\* and different rewards: in one behaviour the first, in another the second.
C19_Witness ==
    /\ pending # <<>>
    /\ args.truncate \/ args.extend
    /\ Head(pending) \notin {"normalize_sims", "truncate_sims_to_shortest",
                             "extend_sims"}
    /\ Cardinality(Ran) = 2
    /\ EqualFinalTimes
    /\ \E p \in Ran, q \in Ran :
           /\ heap[sim_results[p].run_result].total
                  # heap[sim_results[q].run_result].total
           /\ sim_results[q].run_result \in
                  {RunResultRef("truncate_sims_to_shortest", q),
                   RunResultRef("extend_sims", q)}

\* The rewards of a snapshot of the list a stage has returned.
OutputRewards(q, i) == heap'[heap'[OutputWaves(q)[i]].cumulative_rewards]

\* What extend_sims adds to a reward of the q-th run with each snapshot it
\* makes: the final reward over the final elapsed time, times the time a
\* snapshot adds.
AverageReward(q, f) ==
    Mul(Div(heap[heap[InputWaves(q)[Len(InputWaves(q))]].cumulative_rewards][f],
            heap[InputWaves(q)[Len(InputWaves(q))]].elapsed_time),
        WAVE_DURATION + WAVE_COOLDOWN)

\* What extend_sims has returned for the q-th run.  Its loop has made at
\* most one pass more than increments fit into the time the run is short of
\* the longest.
Extended(q) ==
    /\ heap'[OutputWaves(q)[Len(OutputWaves(q))]].elapsed_time
           >= Max(FinalTimes(heap, sim_results))
    /\ Len(OutputWaves(q)) >= Len(InputWaves(q))
    /\ Len(OutputWaves(q)) - Len(InputWaves(q))
           <= ((Max(FinalTimes(heap, sim_results))
                  - heap[InputWaves(q)[Len(InputWaves(q))]].elapsed_time)
               \div (WAVE_DURATION + WAVE_COOLDOWN)) + 1
    /\ \A i \in DOMAIN InputWaves(q) :
           SnapshotValue(heap', OutputWaves(q)[i])
               = SnapshotValue(heap, InputWaves(q)[i])
    /\ \A i \in (Len(InputWaves(q)) + 1)..Len(OutputWaves(q)) :
           /\ heap'[OutputWaves(q)[i - 1]].elapsed_time
                  < Max(FinalTimes(heap, sim_results))
           /\ heap'[OutputWaves(q)[i]].elapsed_time
                  = heap'[OutputWaves(q)[i - 1]].elapsed_time
                        + WAVE_DURATION + WAVE_COOLDOWN
           /\ \A f \in RewardFields :
                  OutputRewards(q, i)[f]
                      = OutputRewards(q, i - 1)[f] + AverageReward(q, f)

\* C20: extend_sims terminates, its loop making a bounded number of passes
\* for each run, and afterwards the final elapsed time of
\* every run that was not skipped has reached the greatest final elapsed
\* time of the batch; the snapshots it was given are an unchanged prefix
\* of the ones it returns, and each snapshot it makes adds WAVE_DURATION +
\* WAVE_COOLDOWN to the elapsed time and, to each of the four rewards, the
\* run's final reward over its final elapsed time, times that increment.
C20_ExtendReachesLongest ==
    [][StageApplied("extend_sims") => \A q \in Ran : Extended(q)]_vars

\* extend_sims has returned a run with two snapshots of its own making,
\* and the longest run as long as it was.
C20_Witness ==
    /\ args.extend
    /\ pending # <<>>
    /\ Head(pending) \notin {"normalize_sims", "extend_sims"}
    /\ \E q \in DOMAIN sim_results :
           /\ sim_results[q].run_result = RunResultRef("extend_sims", q)
           /\ Len(WaveResultsOf(heap, sim_results[q].run_result))
                  >= Len(runs[q].wave_results) + 2
    /\ \E q \in DOMAIN sim_results :
           /\ sim_results[q].run_result = RunResultRef("extend_sims", q)
           /\ Len(WaveResultsOf(heap, sim_results[q].run_result))
                  = Len(runs[q].wave_results)

\* ---------------------------------------------------------------------
\* C21
\* ---------------------------------------------------------------------

\* The times the stage occurs among the stages.
Occurrences(stages, stage) ==
    Cardinality({i \in DOMAIN stages : stages[i] = stage})

\* normalize_sims has read its flags and laid out its stages.
StagesChosen == pending = <<"normalize_sims">> /\ pending' # pending

\* What the elapsed stage has returned for the q-th run: the first snapshot
\* as it was, and every later one with each reward divided by the
\* snapshot's elapsed time and the rest of the snapshot as it was.
DividedByElapsed(q) ==
    /\ Len(OutputWaves(q)) = Len(InputWaves(q))
    /\ SnapshotValue(heap', OutputWaves(q)[1])
           = SnapshotValue(heap, InputWaves(q)[1])
    /\ \A i \in 2..Len(InputWaves(q)) :
           /\ heap[InputWaves(q)[i]].elapsed_time # 0
           /\ SnapshotValue(heap', OutputWaves(q)[i])
                  = [SnapshotValue(heap, InputWaves(q)[i]) EXCEPT
                        !.cumulative_rewards =
                            [f \in RewardFields |->
                                Div(@[f], heap[InputWaves(q)[i]].elapsed_time)]]

\* C21: when the elapsed flag is given, normalize_sims applies the elapsed
\* stage exactly once whatever the other flags are, and the stage divides
\* the rewards of every snapshot but the first of each run by the
\* snapshot's elapsed time and leaves the first snapshot as it was; when
\* the flag is not given the stage is not applied at all.
C21_ElapsedAppliedOnce ==
    [][/\ StagesChosen =>
              Occurrences(pending', "normalize_sims_vs_elapsed")
                  = IF args'.elapsed THEN 1 ELSE 0
       /\ StageApplied("normalize_sims_vs_elapsed") =>
              /\ args.elapsed
              /\ Occurrences(pending', "normalize_sims_vs_elapsed") = 0
              /\ \A q \in Ran : DividedByElapsed(q)
       /\ (\E stage \in AllStages \ {"normalize_sims_vs_elapsed"} :
               StageApplied(stage)) =>
              Occurrences(pending', "normalize_sims_vs_elapsed")
                  = Occurrences(pending, "normalize_sims_vs_elapsed")]_vars

\* The elapsed stage has been applied after extend_sims and before the
\* relative stage, to a run with rewards to divide.
C21_Witness ==
    /\ args.elapsed /\ args.extend /\ args.relative
    /\ pending # <<>>
    /\ Head(pending) = "normalize_sims_vs_baseline"
    /\ \E q \in DOMAIN sim_results :
           /\ sim_results[q].run_result
                  = RunResultRef("normalize_sims_vs_elapsed", q)
           /\ \E i \in 2..Len(WaveResultsOf(heap, sim_results[q].run_result)) :
                  LET snapshot == WaveResultsOf(heap, sim_results[q].run_result)[i]
                  IN  /\ heap[snapshot].elapsed_time > Fix(1)
                      /\ heap[heap[snapshot].cumulative_rewards].coins > 0
                      /\ heap[heap[snapshot].cumulative_rewards].coins
                             < heap[heap[WaveResultsOf(heap,
                                   RunResultRef("extend_sims", q))[i]]
                                       .cumulative_rewards].coins

\* ---------------------------------------------------------------------
\* C22
\* ---------------------------------------------------------------------

\* The q-th scenario has the configuration of the baseline: it differs
\* from it in its labels at most.
SameAsBaseline(q) ==
    [sim_results[q].sim EXCEPT !.name = "", !.mastery = "", !.level = NoLevel]
        = [Baseline(sim_results, BaselineSimName).sim EXCEPT
              !.name = "", !.mastery = "", !.level = NoLevel]

\* C22: the relative stage gives a scenario with the configuration of the
\* baseline the relative value 0 in each of the four rewards at every one
\* of its snapshots, and the overall relative value 0.
C22_TwinOfBaselineIsZero ==
    [][StageApplied("normalize_sims_vs_baseline") =>
           \A q \in Ran :
               SameAsBaseline(q) =>
                   /\ \A i \in DOMAIN OutputWaves(q) :
                          OutputRewards(q, i) = NewRewards
                   /\ OutputResult(q).relative = Some(0)]_vars

\* ---------------------------------------------------------------------
\* C23
\* ---------------------------------------------------------------------

\* The snapshots of the q-th run result of the batch.
SnapshotsOf(q) == WaveResultsOf(heap, sim_results[q].run_result)

\* C23: every snapshot of a wave from 1 on that simulate_run has yielded
\* has a positive elapsed time, so has every snapshot but the first of
\* every run of the batch, truncate_sims_to_shortest and extend_sims
\* applied or not, and the assertion of normalize_sims_vs_elapsed does not
\* fail when the stage is reached.
C23_ElapsedPositiveAfterWaveZero ==
    /\ \A r \in DOMAIN runs :
           \A i \in DOMAIN runs[r].wave_results :
               heap[runs[r].wave_results[i]].wave >= 1 =>
                   heap[runs[r].wave_results[i]].elapsed_time > 0
    /\ \A q \in Ran :
           \A i \in DOMAIN SnapshotsOf(q) :
               (i >= 2 \/ heap[SnapshotsOf(q)[i]].wave >= 1) =>
                   heap[SnapshotsOf(q)[i]].elapsed_time > 0
    /\ (pending # <<>> /\ Head(pending) = "normalize_sims_vs_elapsed") =>
           ~AssertionFails("normalize_sims_vs_elapsed", heap, sim_results,
                           BaselineSimName)

\* The elapsed stage has run on a batch that truncate_sims_to_shortest
\* had cut down to more than the snapshot of wave 0.
C23_Witness ==
    /\ args.elapsed /\ args.truncate
    /\ pending # <<>>
    /\ Head(pending) = "annotate_sims_vs_baseline"
    /\ \A q \in DOMAIN sim_results :
           /\ sim_results[q].run_result
                  = RunResultRef("normalize_sims_vs_elapsed", q)
           /\ Len(SnapshotsOf(q)) > 2
           /\ Len(SnapshotsOf(q))
                  = Len(WaveResultsOf(heap,
                                      RunResultRef("truncate_sims_to_shortest", q)))

\* ---------------------------------------------------------------------
\* C24
\* ---------------------------------------------------------------------

\* No scenario of the batch has the baseline name, or the first that has
\* it is omitted, so that its result is None.
BaselineLost ==
    \/ \A q \in DOMAIN sims : sims[q].name # BaselineSimName
    \/ \E q \in DOMAIN sims :
           /\ sims[q].name = BaselineSimName
           /\ \A p \in 1..(q - 1) : sims[p].name # BaselineSimName
           /\ sims[q].skip

\* C24: when no scenario of the batch has the baseline name, or the
\* baseline's result is None, each of the three stages that depend on the
\* baseline raises on the evaluated batch, the stage normalize_sims reaches
\* leaves the batch it was given as it is, and normalize_sims ends with the
\* exception and returns nothing.
C24_LostBaselineRaises ==
    [][BaselineLost =>
           /\ Len(sim_results) = Len(sims) =>
                  \A stage \in BaselineStages :
                      Raises(stage, heap, sim_results, BaselineSimName) # None
           /\ \A stage \in BaselineStages :
                  (pending # <<>> /\ Head(pending) = stage /\ pending' # pending) =>
                      /\ raised' # None
                      /\ pending' = <<>>
                      /\ sim_results' = sim_results
           /\ pending' = <<>> => raised' # None]_vars

\* The relative stage has raised on a batch that truncate_sims_to_shortest
\* had returned, the baseline being omitted.
C24_Witness ==
    /\ BaselineLost
    /\ args.truncate /\ args.relative
    /\ raised = Some("AssertionError")
    /\ pending = <<>>
    /\ sim_results[1].run_result = NoResult
    /\ sim_results[2].run_result = RunResultRef("truncate_sims_to_shortest", 2)

\* ---------------------------------------------------------------------
\* C25
\* ---------------------------------------------------------------------

\* C25: a scenario whose reward is none of coins, cells, rerolls and
\* modules has no wave simulated and no result produced: its generator
\* yields no snapshot of a wave from 1 on, and the batch evaluated so far
\* stops short of it.
C25_InvalidRewardStopsBeforeWaves ==
    \A r \in DOMAIN sims :
        InvalidReward(sims[r]) =>
            /\ \A i \in DOMAIN runs[r].wave_results :
                   heap[runs[r].wave_results[i]].wave = 0
            /\ Len(sim_results) < r

\* ---------------------------------------------------------------------
\* C26
\* ---------------------------------------------------------------------

\* C26: the recovery package chance of a wave is 1 when the wave before it
\* had a boss, the bosses the intro phase forces included, and the
\* configured package_chance otherwise; wave 1 has the configured
\* package_chance.
C26_PackageFollowsBoss ==
    [][\A r \in DOMAIN runs :
           runs'[r].previous_events.wave = runs[r].previous_events.wave + 1 =>
               runs'[r].previous_events.recovery_packages =
                   IF /\ runs[r].previous_events.wave >= 1
                      /\ runs[r].previous_events.enemies["boss"] = Fix(1)
                   THEN Fix(1)
                   ELSE sims[r].package_chance]_vars

\* ---------------------------------------------------------------------
\* C27
\* ---------------------------------------------------------------------

\* The entries of the table whose wave threshold is at least the wave.
EntriesFrom(wave) ==
    {j \in DOMAIN FLEET_MODULE_SHARD_DROP_TABLE :
        FLEET_MODULE_SHARD_DROP_TABLE[j][1] >= wave}

\* C27: for a wave from 1 on, fleet_shard_reward returns the shard value of
\* the table entry with the smallest wave threshold that is at least the
\* wave, and the value of the last entry when no threshold is; for a wave
\* that is a threshold it returns the value of that threshold's entry.
C27_SmallestThresholdAtLeastWave ==
    shard_call # None =>
        shard_call[1].reward =
            FLEET_MODULE_SHARD_DROP_TABLE[
                IF EntriesFrom(shard_call[1].wave) = {}
                THEN Len(FLEET_MODULE_SHARD_DROP_TABLE)
                ELSE Min(EntriesFrom(shard_call[1].wave))][2]


\* ---------------------------------------------------------------------
\* Observations on the loop of estimate
\* ---------------------------------------------------------------------

\* The loop of the call has not run into the bound on its passes.
LoopFinishes ==
    estimator # None =>
        (estimator[1].passes = MaxPasses =>
            ~(estimator[1].perk_count < estimator[1].next_perk_count))

PerksHeld(confidence) == PerkTotal(reduce(confidence))

\* C29: after n perk events the expected number of perks held, the sum of
\* the values of reduce(), does not exceed n, and so the perk count that
\* estimate derives from a perk state never exceeds the number of events
\* the state stands for.
C29_PerksHeldAtMostEvents ==
    /\ \A r \in DOMAIN sims :
           \A k \in DOMAIN Yielded(r) :
               PerksHeld(Yielded(r)[k]) <= Fix(Yielded(r)[k].count)
    /\ estimator # None =>
           PerksHeld(estimator[1].average) <= estimator[1].perk_count


\* ---------------------------------------------------------------------
\* Observations on the lookups of the relative and difference stages
\* ---------------------------------------------------------------------

\* evaluate_sims has yielded every scenario and the baseline has a run.
BaselineEvaluated ==
    /\ Len(sim_results) = Len(sims)
    /\ raised = None
    /\ \E q \in DOMAIN sim_results : sim_results[q].sim.name = BaselineSimName
    /\ Baseline(sim_results, BaselineSimName).run_result # NoResult

\* The interpolation branches of the lookups the stages make: one in the
\* run of the baseline for the elapsed time of every snapshot of every run.
BaselineLookups ==
    LET baseline_results == Baseline(sim_results, BaselineSimName).run_result
        evaluated == {q \in DOMAIN sim_results :
                         sim_results[q].run_result # NoResult}
    IN  UNION {{InterpolationBranch(heap, baseline_results,
                                    heap[wave_result].elapsed_time) :
                   wave_result \in
                       Range(WaveResultsOf(heap, sim_results[q].run_result))} :
               q \in evaluated}
        \ {None}

\* Two consecutive snapshots of the run share their elapsed time.
SharesElapsedTime(run_result) ==
    \E i \in 1..(Len(WaveResultsOf(heap, run_result)) - 1) :
        heap[WaveResultsOf(heap, run_result)[i]].elapsed_time =
            heap[WaveResultsOf(heap, run_result)[i + 1]].elapsed_time

\* C30: whenever results_at_time takes its interpolation branch for a
\* lookup of the relative or difference stage, the two snapshots it picks
\* have different elapsed times, also in runs whose intro snapshots share
\* an elapsed time, so assert basis != 0 never fails.
C30_InterpolationBasisNonZero ==
    BaselineEvaluated =>
        \A branch \in BaselineLookups :
            /\ branch[1].basis # 0
            /\ heap[branch[1].lower_result].elapsed_time #
                   heap[branch[1].higher_result].elapsed_time

\* The relative or difference stage has run over a baseline whose intro
\* snapshots share an elapsed time, and lookups took the interpolation
\* branch.
C30_Witness ==
    /\ BaselineEvaluated
    /\ pending = <<>>
    /\ args.relative \/ args.difference
    /\ SharesElapsedTime(Baseline(sim_results, BaselineSimName).run_result)
    /\ BaselineLookups # {}

====
